---- MODULE Spec2Model ----
(***************************************************************************)
(* Mood tracker: the inbound webhook router (api/slack/events.ts, custom   *)
(* handler variant), its signature verification, the interaction handler   *)
(* and the persist-and-notify sequence saveMoodEntry.                      *)
(*                                                                         *)
(* Encoding of JavaScript values                                           *)
(*   - an object is a function whose DOMAIN is the set of defined keys;    *)
(*     reading an absent key yields undefined (None / NoneS);              *)
(*   - protocol strings that the code only compares are TLA+ strings;      *)
(*   - strings whose characters the code inspects (timestamp header,       *)
(*     channel id, action id) are sequences of one-character strings;      *)
(*   - a JSON text is the function from its keys to the rendered values    *)
(*     (numbers rendered as digit strings), nested paths flattened.        *)
(***************************************************************************)
EXTENDS Integers, Sequences, FiniteSets, TLC

VARIABLES
    env,     \* process.env of the deployment
    prompt,  \* platform: the check-in message shown to the user
    view,    \* platform: the follow-up form currently open for the user
    nreq,    \* number of HTTP requests delivered so far
    cur,     \* the handler invocation in progress (or the last one finished)
    runs,    \* saveMoodEntry invocations (background), in start order
    rows     \* table mood_entries, in insertion order

vars == <<env, prompt, view, nreq, cur, runs, rows>>

(***************************** bounds *************************************)
\* requests delivered in one behaviour of the platform specification
MaxReq == 2
\* requests delivered in one behaviour of the wire-level specification
MaxWireReq == 1

(************************** JavaScript values *****************************)
None == "undefined"
NoneS == <<"undefined">>

Truthy(v) == v \notin {None, ""}
TruthyS(s) == s \notin {NoneS, <<>>}

Get(obj, k) == IF k \in DOMAIN obj THEN obj[k] ELSE None
GetS(obj, k) == IF k \in DOMAIN obj THEN obj[k] ELSE NoneS
\* a number-valued property; 0 stands for undefined
GetN(obj, k) == IF k \in DOMAIN obj THEN obj[k] ELSE 0

EmptyObj == [k \in {} |-> None]

\* object literal {k: v} dropping the key when v is undefined, as
\* JSON.stringify does
Prop(k, v) == IF v = None THEN EmptyObj ELSE (k :> v)
PropS(k, s) == IF s = NoneS THEN EmptyObj ELSE (k :> s)

StartsWith(s, p) ==
    /\ Len(s) >= Len(p)
    /\ SubSeq(s, 1, Len(p)) = p

Digits == <<"0", "1", "2", "3", "4", "5", "6", "7", "8", "9">>
IsDigit(c) == \E d \in 1..10 : Digits[d] = c
DigitVal(c) == (CHOOSE d \in 1..10 : Digits[d] = c) - 1

\* parseInt(s): the number denoted by the leading digits of s
RECURSIVE ParseIntAcc(_, _)
ParseIntAcc(s, acc) ==
    IF s = <<>> \/ ~IsDigit(Head(s)) THEN acc
    ELSE ParseIntAcc(Tail(s), acc * 10 + DigitVal(Head(s)))
ParseInt(s) == ParseIntAcc(s, 0)
\* parseInt(s) is NaN when s has no leading digit
IsNaN(s) == s = <<>> \/ ~IsDigit(Head(s))

Abs(x) == IF x < 0 THEN -x ELSE x

(******************************* JSON *************************************)
NumKeys == {"score"}
\* JSON.stringify of a number in 0..9 / JSON.parse of its text
NumToText(n) == Digits[n + 1]
TextToNum(t) == DigitVal(t)

MalformedJson == ("#syntax_error" :> "x")
IsValidJson(text) == "#syntax_error" \notin DOMAIN text

JsonStringify(obj) ==
    [k \in DOMAIN obj |-> IF k \in NumKeys THEN NumToText(obj[k]) ELSE obj[k]]
JsonParse(text) ==
    [k \in DOMAIN text |-> IF k \in NumKeys THEN TextToNum(text[k]) ELSE text[k]]

(************************** mood configuration ****************************)
Chars_mood == <<"m", "o", "o", "d", "_">>

MOODS == <<
    [score |-> 1, emoji |-> ":sob:",     action_id |-> Chars_mood \o <<"1">>],
    [score |-> 2, emoji |-> ":frown:",   action_id |-> Chars_mood \o <<"2">>],
    [score |-> 3, emoji |-> ":neutral:", action_id |-> Chars_mood \o <<"3">>],
    [score |-> 4, emoji |-> ":smile:",   action_id |-> Chars_mood \o <<"4">>],
    [score |-> 5, emoji |-> ":grin:",    action_id |-> Chars_mood \o <<"5">> ] >>

\* mutant: the button carries the zero-based index of the mood as its score
MoodButton_indexScore(mood, sourceChannelId, responseUrl) ==
    [action_id |-> mood.action_id,
     value |-> JsonStringify(("score" :> mood.score - 1) @@ ("emoji" :> mood.emoji)
                   @@ PropS("source_channel_id", sourceChannelId)
                   @@ Prop("response_url", responseUrl))]

\* mutant: every button carries the symbol of the first mood
MoodButton_firstEmoji(mood, sourceChannelId, responseUrl) ==
    [action_id |-> mood.action_id,
     value |-> JsonStringify(("score" :> mood.score) @@ ("emoji" :> MOODS[1].emoji)
                   @@ PropS("source_channel_id", sourceChannelId)
                   @@ Prop("response_url", responseUrl))]

\* one button of the actions block: its action id and its JSON value
MoodButton(mood, sourceChannelId, responseUrl) ==
    [action_id |-> mood.action_id,
     value |-> JsonStringify(("score" :> mood.score) @@ ("emoji" :> mood.emoji)
                   @@ PropS("source_channel_id", sourceChannelId)
                   @@ Prop("response_url", responseUrl))]

\* mutant: the buttons do not carry the callback URL
buildMoodMessage_noUrl(sourceChannelId, responseUrl) ==
    [i \in 1..Len(MOODS) |-> MoodButton(MOODS[i], sourceChannelId, None)]

buildMoodMessage(sourceChannelId, responseUrl) ==
    [i \in 1..Len(MOODS) |-> MoodButton(MOODS[i], sourceChannelId, responseUrl)]

(************************ signature verification **************************)
ReplayWindow == 300

\* HMAC-SHA256 as a perfect keyed hash: the digest names its key and message
Hmac(key, msg) == [key |-> key, msg |-> msg]

\* mutant: the base string is built from the decoded and re-serialised body
SigBasestring_reserialized(timestamp, body) ==
    <<"v0", timestamp, [body EXCEPT !.layout = 0]>>

\* `v0:${timestamp}:${body}`
SigBasestring(timestamp, body) == <<"v0", timestamp, body>>

\* `v0=${hex digest}`: 3 + 64 characters
SigString(digest) == [scheme |-> "v0=", hex |-> digest, len |-> "full"]

\* mutant: only the version prefix of the two signatures is compared
timingSafeEqual_prefixOnly(a, b) ==
    IF a.len # b.len THEN "throw"
    ELSE IF a.scheme = b.scheme THEN "true" ELSE "false"

\* crypto.timingSafeEqual: a RangeError when the byte lengths differ
timingSafeEqual(a, b) ==
    IF a.len # b.len THEN "throw"
    ELSE IF a = b THEN "true" ELSE "false"

\* mutant: the age of the timestamp is tested without Math.abs
verifySlackSignature_noAbs(req, body, time) ==
    LET timestamp == req.timestamp
        signature == req.signature
    IN  IF ~timestamp.set \/ timestamp.val = <<>>
           \/ ~signature.set \/ signature.val.len = "empty"
        THEN "false"
        ELSE IF ~IsNaN(timestamp.val)
                /\ time - ParseInt(timestamp.val) > ReplayWindow
        THEN "false"
        ELSE timingSafeEqual(
                SigString(Hmac(env.SLACK_SIGNING_SECRET,
                               SigBasestring(timestamp.val, body))),
                signature.val)

\* the result is "true", "false" or "throw" (an exception leaves the function)
verifySlackSignature(req, body, time) ==
    LET timestamp == req.timestamp
        signature == req.signature
    IN  IF ~timestamp.set \/ timestamp.val = <<>>
           \/ ~signature.set \/ signature.val.len = "empty"
        THEN "false"
        ELSE IF ~IsNaN(timestamp.val)
                /\ Abs(time - ParseInt(timestamp.val)) > ReplayWindow
        THEN "false"
        ELSE timingSafeEqual(
                SigString(Hmac(env.SLACK_SIGNING_SECRET,
                               SigBasestring(timestamp.val, body))),
                signature.val)

(***************************** requests ***********************************)
\* An HTTP header: absent, or present with a value
NoHdr(dflt) == [set |-> FALSE, val |-> dflt]
Hdr(v) == [set |-> TRUE, val |-> v]

\* contentType.includes(x), the header being a sequence of tokens
Includes(contentType, x) == \E i \in 1..Len(contentType) : contentType[i] = x

\* A raw body is the text on the wire: its syntax, the key/value content it
\* spells, and its insignificant layout (key order, white space, escapes)
RawBody(syntax, fields, layout) ==
    [syntax |-> syntax, fields |-> fields, layout |-> layout]

Opaque == ("#opaque" :> "")

\* lines 328-336: the body decoded according to the content type
ParseBody(req) ==
    IF Includes(req.contentType, "application/json")
    THEN IF req.rawBody.syntax = "json" /\ IsValidJson(req.rawBody.fields)
         THEN [threw |-> FALSE, body |-> JsonParse(req.rawBody.fields)]
         ELSE [threw |-> TRUE, body |-> EmptyObj]
    ELSE IF Includes(req.contentType, "application/x-www-form-urlencoded")
    THEN IF req.rawBody.syntax = "form"
         THEN [threw |-> FALSE, body |-> req.rawBody.fields]
         ELSE [threw |-> FALSE, body |-> Opaque]
    ELSE [threw |-> FALSE, body |-> EmptyObj]

(*************************** handler records ******************************)
Ev(what, ph) == [what |-> what, ph |-> ph]

NoView == [open |-> FALSE, callback_id |-> None, private_metadata |-> EmptyObj,
           pressed |-> 0]

NoReply == [kind |-> "none", challenge |-> None, buttons |-> <<>>,
            entries |-> <<>>, average |-> 0, response_type |-> None]
Reply(kind) == [NoReply EXCEPT !.kind = kind]

NoPend == [view |-> NoView, user_id |-> None]

NoGhost == [pressed |-> 0, typed |-> None, kind |-> "none"]

IdleReq == [method |-> "POST", contentType |-> <<>>,
            rawBody |-> RawBody("text", EmptyObj, 0),
            timestamp |-> NoHdr(<<>>),
            signature |-> NoHdr([scheme |-> "v0=", hex |-> [key |-> "", msg |-> <<>>],
                                 len |-> "full"]),
            ghost |-> NoGhost]

Idle == [pc |-> "idle", req |-> IdleReq, time |-> 0, status |-> 0,
         crashed |-> FALSE, reply |-> NoReply, log |-> <<>>, pend |-> NoPend]

Invocation(req, time) == [Idle EXCEPT !.pc = "running", !.req = req, !.time = time]

StatusText(status) ==
    CASE status = 200 -> "200" [] status = 401 -> "401"
      [] status = 405 -> "405" [] OTHER -> "500"

\* res.status(status).json(...) / .send(...): the handler returns
Responded(c, status, reply) ==
    [c EXCEPT !.pc = "done", !.status = status, !.reply = reply,
              !.log = Append(@, Ev("respond", StatusText(status)))]

\* an exception leaves the handler: the platform answers 500
Crashed(c) ==
    [c EXCEPT !.pc = "done", !.status = 500, !.crashed = TRUE,
              !.log = Append(@, Ev("unhandled_error", "500"))]

Logged(c, what, ph) == [c EXCEPT !.log = Append(@, Ev(what, ph))]

Out(c, rs) == [cur |-> c, runs |-> rs]

(************************* slash commands *********************************)
\* lines 94-144, up to the first await
handleSlashCommand(payload, c0, rs) ==
    LET c == Logged(c0, "handleSlashCommand", "enter")
        command == Get(payload, "command")
    IN  IF command = "/mood"
        THEN Out(Responded(c, 200,
                    [Reply("mood_blocks") EXCEPT
                        !.response_type = "ephemeral",
                        !.buttons =
                            buildMoodMessage(GetS(payload, "channel_id"),
                                             Get(payload, "response_url"))]), rs)
        ELSE IF command = "/my-moods"
        THEN Out([Logged(c, "select", "call") EXCEPT
                     !.pc = "await_select",
                     !.pend.user_id = Get(payload, "user_id")], rs)
        ELSE Out(Responded(c, 200, Reply("unknown_command")), rs)

(*********************** persist-and-notify *******************************)
\* saveMoodEntry is called without await: it runs synchronously up to its
\* first await, i.e. it issues client.users.info before control returns
saveMoodEntryStart(c, rs, userId, metadata, contextValue, teamId) ==
    Out(Logged(c, "users.info", "call"),
        Append(rs, [req |-> c.req, userId |-> userId, metadata |-> metadata,
                    contextValue |-> contextValue, teamId |-> teamId,
                    pc |-> "await_users_info", displayName |-> None,
                    username |-> None, messageUpdated |-> FALSE,
                    log |-> <<Ev("users.info", "call")>>]))

(************************** interactions **********************************)
PropN(k, n) == IF n = 0 THEN EmptyObj ELSE (k :> n)

\* mutant: the token does not record the timestamp of the original message
PrivateMetadata_noTimestamp(moodData, channelId, messageTs) ==
    JsonStringify(PropN("score", GetN(moodData, "score"))
                  @@ Prop("emoji", Get(moodData, "emoji"))
                  @@ PropS("channel_id", channelId)
                  @@ Prop("response_url", Get(moodData, "response_url")))

\* lines 163-169: the round-trip token
PrivateMetadata(moodData, channelId, messageTs) ==
    JsonStringify(PropN("score", GetN(moodData, "score"))
                  @@ Prop("emoji", Get(moodData, "emoji"))
                  @@ PropS("channel_id", channelId)
                  @@ Prop("message_ts", messageTs)
                  @@ Prop("response_url", Get(moodData, "response_url")))

\* mutant: a form resolution is accepted whatever the form
handleInteraction_anyCallback(payload, c0, rs) ==
    LET c == Logged(c0, "handleInteraction", "enter")
        type == Get(payload, "type")
    IN  IF type = "block_actions"
        THEN IF "action_id" \notin DOMAIN payload THEN Out(Crashed(c), rs)
             ELSE IF StartsWith(payload.action_id, Chars_mood)
             THEN IF "value" \notin DOMAIN payload \/ ~IsValidJson(payload.value)
                  THEN Out(Crashed(c), rs)
                  ELSE LET moodData == JsonParse(payload.value)
                           src == GetS(moodData, "source_channel_id")
                           channelId == IF TruthyS(src) THEN src
                                        ELSE GetS(payload, "channel_id")
                       IN  Out([Logged(c, "views.open", "call") EXCEPT
                                  !.pc = "await_views_open",
                                  !.pend.view =
                                     [open |-> TRUE,
                                      callback_id |-> "mood_context_modal",
                                      private_metadata |->
                                         PrivateMetadata(moodData, channelId,
                                             Get(payload, "message_ts")),
                                      pressed |-> c.req.ghost.pressed]], rs)
             ELSE Out(Responded(c, 200, Reply("empty")), rs)
        ELSE IF type \in {"view_submission", "view_closed"}
        THEN IF "callback_id" \notin DOMAIN payload THEN Out(Crashed(c), rs)
             ELSE IF payload.callback_id # ""
             THEN IF "private_metadata" \notin DOMAIN payload
                     \/ ~IsValidJson(payload.private_metadata)
                  THEN Out(Crashed(c), rs)
                  ELSE LET metadata == JsonParse(payload.private_metadata)
                           value == Get(payload, "context_value")
                           contextValue ==
                               IF type = "view_submission" /\ Truthy(value)
                               THEN value ELSE None
                           started == saveMoodEntryStart(c, rs,
                                          Get(payload, "user_id"), metadata,
                                          contextValue, Get(payload, "team_id"))
                       IN  Out(Responded(started.cur, 200, Reply("empty")),
                               started.runs)
             ELSE Out(Responded(c, 200, Reply("empty")), rs)
        ELSE Out(Responded(c, 200, Reply("empty")), rs)

\* lines 147-221, up to the first await
handleInteraction(payload, c0, rs) ==
    LET c == Logged(c0, "handleInteraction", "enter")
        type == Get(payload, "type")
    IN  IF type = "block_actions"
        THEN IF "action_id" \notin DOMAIN payload THEN Out(Crashed(c), rs)
             ELSE IF StartsWith(payload.action_id, Chars_mood)
             THEN IF "value" \notin DOMAIN payload \/ ~IsValidJson(payload.value)
                  THEN Out(Crashed(c), rs)
                  ELSE LET moodData == JsonParse(payload.value)
                           src == GetS(moodData, "source_channel_id")
                           channelId == IF TruthyS(src) THEN src
                                        ELSE GetS(payload, "channel_id")
                       IN  Out([Logged(c, "views.open", "call") EXCEPT
                                  !.pc = "await_views_open",
                                  !.pend.view =
                                     [open |-> TRUE,
                                      callback_id |-> "mood_context_modal",
                                      private_metadata |->
                                         PrivateMetadata(moodData, channelId,
                                             Get(payload, "message_ts")),
                                      pressed |-> c.req.ghost.pressed]], rs)
             ELSE Out(Responded(c, 200, Reply("empty")), rs)
        ELSE IF type \in {"view_submission", "view_closed"}
        THEN IF "callback_id" \notin DOMAIN payload THEN Out(Crashed(c), rs)
             ELSE IF payload.callback_id = "mood_context_modal"
             THEN IF "private_metadata" \notin DOMAIN payload
                     \/ ~IsValidJson(payload.private_metadata)
                  THEN Out(Crashed(c), rs)
                  ELSE LET metadata == JsonParse(payload.private_metadata)
                           value == Get(payload, "context_value")
                           contextValue ==
                               IF type = "view_submission" /\ Truthy(value)
                               THEN value ELSE None
                           started == saveMoodEntryStart(c, rs,
                                          Get(payload, "user_id"), metadata,
                                          contextValue, Get(payload, "team_id"))
                       IN  Out(Responded(started.cur, 200, Reply("empty")),
                               started.runs)
             ELSE Out(Responded(c, 200, Reply("empty")), rs)
        ELSE Out(Responded(c, 200, Reply("empty")), rs)

(****************************** router ************************************)
\* mutant: the challenge is answered only after the signature check
ChallengeBypass_signed(req, body, time) ==
    /\ Get(body, "type") = "url_verification"
    /\ verifySlackSignature(req, req.rawBody, time) = "true"

\* lines 338-341: a challenge handshake is answered before any signature check
ChallengeBypass(req, body, time) == Get(body, "type") = "url_verification"

\* mutant: the method is looked at only after the body was read and the
\* signature verified
handler_methodLast(req, time, rs) ==
    LET c == Invocation(req, time)
        parsed == ParseBody(req)
        body == parsed.body
    IN  IF parsed.threw THEN Out(Crashed(c), rs)
        ELSE IF ChallengeBypass(req, body, time)
        THEN Out(Responded(c, 200,
                    [Reply("challenge") EXCEPT
                        !.challenge = Get(body, "challenge")]), rs)
        ELSE LET ok == verifySlackSignature(req, req.rawBody, time)
                 v == Logged(c, "verifySlackSignature", ok)
             IN  IF ok = "throw" THEN Out(Crashed(v), rs)
                 ELSE IF ok = "false"
                 THEN Out(Responded(v, 401, Reply("error")), rs)
                 ELSE IF req.method # "POST"
                 THEN Out(Responded(v, 405, Reply("error")), rs)
                 ELSE IF Truthy(Get(body, "command"))
                 THEN handleSlashCommand(body, v, rs)
                 ELSE IF "payload" \in DOMAIN body
                 THEN IF ~IsValidJson(body.payload)
                      THEN Out(Crashed(v), rs)
                      ELSE handleInteraction(JsonParse(body.payload), v, rs)
                 ELSE IF Get(body, "type") = "event_callback"
                 THEN Out(Responded(Logged(v, "event_callback", "ignored"),
                                    200, Reply("empty")), rs)
                 ELSE Out(Responded(v, 200, Reply("empty")), rs)

\* mutant: the payload field is looked at before the command field
handler_payloadFirst(req, time, rs) ==
    LET c == Invocation(req, time)
    IN  IF req.method # "POST" THEN Out(Responded(c, 405, Reply("error")), rs)
        ELSE LET parsed == ParseBody(req)
                 body == parsed.body
             IN  IF parsed.threw THEN Out(Crashed(c), rs)
                 ELSE IF ChallengeBypass(req, body, time)
                 THEN Out(Responded(c, 200,
                             [Reply("challenge") EXCEPT
                                 !.challenge = Get(body, "challenge")]), rs)
                 ELSE LET ok == verifySlackSignature(req, req.rawBody, time)
                          v == Logged(c, "verifySlackSignature", ok)
                      IN  IF ok = "throw" THEN Out(Crashed(v), rs)
                          ELSE IF ok = "false"
                          THEN Out(Responded(v, 401, Reply("error")), rs)
                          ELSE IF "payload" \in DOMAIN body
                          THEN IF ~IsValidJson(body.payload)
                               THEN Out(Crashed(v), rs)
                               ELSE handleInteraction(JsonParse(body.payload), v, rs)
                          ELSE IF Truthy(Get(body, "command"))
                          THEN handleSlashCommand(body, v, rs)
                          ELSE IF Get(body, "type") = "event_callback"
                          THEN Out(Responded(Logged(v, "event_callback", "ignored"),
                                             200, Reply("empty")), rs)
                          ELSE Out(Responded(v, 200, Reply("empty")), rs)

\* lines 319-367, up to the first await of the branch taken
handler(req, time, rs) ==
    LET c == Invocation(req, time)
    IN  IF req.method # "POST" THEN Out(Responded(c, 405, Reply("error")), rs)
        ELSE LET parsed == ParseBody(req)
                 body == parsed.body
             IN  IF parsed.threw THEN Out(Crashed(c), rs)
                 ELSE IF ChallengeBypass(req, body, time)
                 THEN Out(Responded(c, 200,
                             [Reply("challenge") EXCEPT
                                 !.challenge = Get(body, "challenge")]), rs)
                 ELSE LET ok == verifySlackSignature(req, req.rawBody, time)
                          v == Logged(c, "verifySlackSignature", ok)
                      IN  IF ok = "throw" THEN Out(Crashed(v), rs)
                          ELSE IF ok = "false"
                          THEN Out(Responded(v, 401, Reply("error")), rs)
                          ELSE IF Truthy(Get(body, "command"))
                          THEN handleSlashCommand(body, v, rs)
                          ELSE IF "payload" \in DOMAIN body
                          THEN IF ~IsValidJson(body.payload)
                               THEN Out(Crashed(v), rs)
                               ELSE handleInteraction(JsonParse(body.payload), v, rs)
                          ELSE IF Get(body, "type") = "event_callback"
                          THEN Out(Responded(Logged(v, "event_callback", "ignored"),
                                             200, Reply("empty")), rs)
                          ELSE Out(Responded(v, 200, Reply("empty")), rs)

(********************* handler continuations ******************************)
\* line 158 resumes: views.open resolved, or rejected (the exception leaves
\* handleInteraction and handler)
ViewsOpenDone(ok) ==
    /\ cur.pc = "await_views_open"
    /\ IF ok
       THEN /\ view' = cur.pend.view
            /\ cur' = Responded(Logged(cur, "views.open", "ok"), 200, Reply("empty"))
       ELSE /\ view' = view
            /\ cur' = Crashed(Logged(cur, "views.open", "err"))
    /\ UNCHANGED <<env, prompt, nreq, runs, rows>>

RECURSIVE SelectUser(_, _)
\* .eq("slack_user_id", user_id).order("recorded_at", descending)
SelectUser(table, userId) ==
    IF table = <<>> THEN <<>>
    ELSE LET rest == SelectUser(SubSeq(table, 1, Len(table) - 1), userId)
             last == table[Len(table)]
         IN  IF last.slack_user_id = userId THEN <<last>> \o rest ELSE rest

MyMoodsLimit == 7
\* mutant: the query has no limit
Limit_none(s, n) == s

Limit(s, n) == IF Len(s) <= n THEN s ELSE SubSeq(s, 1, n)

RECURSIVE SumScores(_)
\* data.reduce((sum, e) => sum + e.mood_score, 0)
SumScores(data) ==
    IF data = <<>> THEN 0 ELSE Head(data).mood_score + SumScores(Tail(data))

\* (sum / n).toFixed(1), in tenths: the quotient rounded to one decimal, a
\* tie (a quotient ending in .25 or .75, which a double holds exactly) going
\* up
ToFixed1(sum, n) == (20 * sum + n) \div (2 * n)

\* line 105 resumes: the select resolved with data or with an error
SelectDone(ok) ==
    /\ cur.pc = "await_select"
    /\ LET data == Limit(SelectUser(rows, cur.pend.user_id), MyMoodsLimit)
       IN  IF ~ok \/ Len(data) = 0
           THEN cur' = Responded(Logged(cur, "select", IF ok THEN "ok" ELSE "err"),
                                 200, [Reply("no_entries") EXCEPT
                                          !.response_type = "ephemeral"])
           ELSE cur' = Responded(Logged(cur, "select", "ok"), 200,
                                 [Reply("my_moods") EXCEPT
                                     !.response_type = "ephemeral",
                                     !.entries = data,
                                     !.average = ToFixed1(SumScores(data),
                                                          Len(data))])
    /\ UNCHANGED <<env, prompt, view, nreq, runs, rows>>

(******************* persist-and-notify continuations *********************)
RLog(run, what, ph) == [run EXCEPT !.log = Append(@, Ev(what, ph))]
RCall(run, what, pc) == [RLog(run, what, "call") EXCEPT !.pc = pc]
RDone(run) == [run EXCEPT !.pc = "done"]
\* the outer catch of saveMoodEntry (lines 313-315)
RCaught(run) == RDone(RLog(run, "console.error", "caught"))

\* lines 301-312
Announce(run) ==
    IF Truthy(env.MOOD_CHANNEL_ID)
    THEN RCall(run, "announce", "await_announce")
    ELSE RDone(run)

\* lines 295-299
SendDm(run) == RCall(run, "dm", "await_dm")

\* mutant: the conversation is preferred to the callback URL
Confirmation_channelFirst(run) ==
    IF ~run.messageUpdated
    THEN IF TruthyS(GetS(run.metadata, "channel_id"))
         THEN IF StartsWith(GetS(run.metadata, "channel_id"), <<"D">>)
              THEN RCall(run, "confirm.postMessage", "await_confirm")
              ELSE RCall(run, "confirm.postEphemeral", "await_confirm")
         ELSE IF Truthy(Get(run.metadata, "response_url"))
         THEN RCall(run, "confirm.response_url", "await_confirm")
         ELSE SendDm(run)
    ELSE SendDm(run)

\* mutant: the confirmation is sent whether or not the edit succeeded
Confirmation_unconditional(run) ==
    IF Truthy(Get(run.metadata, "response_url"))
    THEN RCall(run, "confirm.response_url", "await_confirm")
    ELSE IF TruthyS(GetS(run.metadata, "channel_id"))
    THEN IF StartsWith(GetS(run.metadata, "channel_id"), <<"D">>)
         THEN RCall(run, "confirm.postMessage", "await_confirm")
         ELSE RCall(run, "confirm.postEphemeral", "await_confirm")
    ELSE SendDm(run)

\* lines 267-293
Confirmation(run) ==
    IF ~run.messageUpdated
    THEN IF Truthy(Get(run.metadata, "response_url"))
         THEN RCall(run, "confirm.response_url", "await_confirm")
         ELSE IF TruthyS(GetS(run.metadata, "channel_id"))
         THEN IF StartsWith(GetS(run.metadata, "channel_id"), <<"D">>)
              THEN RCall(run, "confirm.postMessage", "await_confirm")
              ELSE RCall(run, "confirm.postEphemeral", "await_confirm")
         ELSE SendDm(run)
    ELSE SendDm(run)

\* mutant: the edit is attempted whenever the token has a conversation id
UpdateOriginal_channelOnly(run) ==
    IF TruthyS(GetS(run.metadata, "channel_id"))
    THEN RCall(run, "chat.update", "await_update")
    ELSE Confirmation(run)

\* lines 247-265
UpdateOriginal(run) ==
    IF TruthyS(GetS(run.metadata, "channel_id"))
       /\ Truthy(Get(run.metadata, "message_ts"))
    THEN RCall(run, "chat.update", "await_update")
    ELSE Confirmation(run)

\* lines 233-245: the profile arrives, the name is resolved, the insert issued
DisplayName(profile) ==
    IF Truthy(profile.display_name) THEN profile.display_name
    ELSE IF Truthy(profile.real_name) THEN profile.real_name
    ELSE "Someone"

\* mutant: a failed lookup is survived with the placeholder name
UsersInfoDone_placeholder(r, ok, profile) ==
    /\ r \in 1..Len(runs)
    /\ runs[r].pc = "await_users_info"
    /\ runs' = [runs EXCEPT ![r] =
          IF ok
          THEN RCall([RLog(@, "users.info", "ok") EXCEPT
                         !.displayName = DisplayName(profile),
                         !.username = profile.name],
                     "insert", "await_insert")
          ELSE RCall([RLog(@, "users.info", "err") EXCEPT
                         !.displayName = "Someone"],
                     "insert", "await_insert")]
    /\ UNCHANGED <<env, prompt, view, nreq, cur, rows>>

UsersInfoDone(r, ok, profile) ==
    /\ r \in 1..Len(runs)
    /\ runs[r].pc = "await_users_info"
    /\ runs' = [runs EXCEPT ![r] =
          IF ok
          THEN RCall([RLog(@, "users.info", "ok") EXCEPT
                         !.displayName = DisplayName(profile),
                         !.username = profile.name],
                     "insert", "await_insert")
          ELSE RCaught(RLog(@, "users.info", "err"))]
    /\ UNCHANGED <<env, prompt, view, nreq, cur, rows>>

\* the row of lines 237-245
MoodRow(run, r) ==
    [slack_user_id |-> run.userId,
     slack_username |-> run.username,
     slack_display_name |-> run.displayName,
     mood_score |-> GetN(run.metadata, "score"),
     mood_emoji |-> Get(run.metadata, "emoji"),
     additional_context |-> run.contextValue,
     slack_team_id |-> run.teamId,
     run |-> r]

\* schema: NOT NULL columns and CHECK (mood_score >= 1 AND mood_score <= 5)
ConstraintsHold(row) ==
    /\ row.slack_user_id # None
    /\ row.mood_score >= 1 /\ row.mood_score <= 5
    /\ row.mood_emoji # None

\* mutant: a failed insert is attempted once more
AfterInsert_retry(run, stored) ==
    IF ~stored /\ Cardinality({i \in 1..Len(run.log) :
                                 run.log[i] = Ev("insert", "call")}) < 2
    THEN RCall(RLog(run, "insert", "err"), "insert", "await_insert")
    ELSE UpdateOriginal(RLog(run, "insert", IF stored THEN "ok" ELSE "err"))

\* what saveMoodEntry does with the result of the insert: the returned
\* { error } is not inspected
AfterInsert(run, stored) ==
    UpdateOriginal(RLog(run, "insert", IF stored THEN "ok" ELSE "err"))

\* mutant: the insert is an upsert on the submitter: an existing row of the
\* same user is overwritten
InsertDone_upsert(r, ok) ==
    /\ r \in 1..Len(runs)
    /\ runs[r].pc = "await_insert"
    /\ LET row == MoodRow(runs[r], r)
           stored == ok /\ ConstraintsHold(row)
           same == {k \in 1..Len(rows) : rows[k].slack_user_id = row.slack_user_id}
       IN  /\ rows' = IF ~stored THEN rows
                      ELSE IF same = {} THEN Append(rows, row)
                      ELSE [k \in 1..Len(rows) |-> IF k \in same THEN row ELSE rows[k]]
           /\ runs' = [runs EXCEPT ![r] = AfterInsert(@, stored)]
    /\ UNCHANGED <<env, prompt, view, nreq, cur>>

\* the data store answers: the row is stored, or an error is returned
InsertDone(r, ok) ==
    /\ r \in 1..Len(runs)
    /\ runs[r].pc = "await_insert"
    /\ LET row == MoodRow(runs[r], r)
           stored == ok /\ ConstraintsHold(row)
       IN  /\ rows' = IF stored THEN Append(rows, row) ELSE rows
           /\ runs' = [runs EXCEPT ![r] = AfterInsert(@, stored)]
    /\ UNCHANGED <<env, prompt, view, nreq, cur>>

UpdateDone(r, ok) ==
    /\ r \in 1..Len(runs)
    /\ runs[r].pc = "await_update"
    /\ runs' = [runs EXCEPT ![r] =
          IF ok
          THEN Confirmation([RLog(@, "chat.update", "ok") EXCEPT
                                !.messageUpdated = TRUE])
          ELSE Confirmation(RLog(@, "chat.update", "err"))]
    /\ UNCHANGED <<env, prompt, view, nreq, cur, rows>>

LastCall(run) == run.log[Len(run.log)].what

ConfirmDone(r, ok) ==
    /\ r \in 1..Len(runs)
    /\ runs[r].pc = "await_confirm"
    /\ runs' = [runs EXCEPT ![r] =
          SendDm(RLog(@, LastCall(@), IF ok THEN "ok" ELSE "err"))]
    /\ UNCHANGED <<env, prompt, view, nreq, cur, rows>>

\* line 296 is not inside an inner try: a rejection reaches the outer catch
DmDone(r, ok) ==
    /\ r \in 1..Len(runs)
    /\ runs[r].pc = "await_dm"
    /\ runs' = [runs EXCEPT ![r] =
          IF ok THEN Announce(RLog(@, "dm", "ok"))
          ELSE RCaught(RLog(@, "dm", "err"))]
    /\ UNCHANGED <<env, prompt, view, nreq, cur, rows>>

AnnounceDone(r, ok) ==
    /\ r \in 1..Len(runs)
    /\ runs[r].pc = "await_announce"
    /\ runs' = [runs EXCEPT ![r] =
          RDone(RLog(@, "announce", IF ok THEN "ok" ELSE "err"))]
    /\ UNCHANGED <<env, prompt, view, nreq, cur, rows>>

(***************************** environment ********************************)
Secret == "signing-secret"
NowChars == <<"1", "0", "0", "0">>
\* Math.floor(Date.now() / 1000) at the time a request is handled
Now == ParseInt(NowChars)

FormType == <<"application/x-www-form-urlencoded">>
JsonType == <<"application/json">>
TextType == <<"text/plain">>

\* the sender's side of the signing scheme: 'v0=' followed by the hex
\* HMAC-SHA256, under key, of 'v0:<timestamp>:<raw body>'
SignatureOf(key, timestamp, rawBody) ==
    [scheme |-> "v0=",
     hex |-> [key |-> key, msg |-> <<"v0", timestamp, rawBody>>],
     len |-> "full"]

Request(method, contentType, rawBody, timestamp, signature, ghost) ==
    [method |-> method, contentType |-> contentType, rawBody |-> rawBody,
     timestamp |-> timestamp, signature |-> signature, ghost |-> ghost]

\* a request as the platform sends it: form-encoded, stamped and signed
PlatformRequest(fields, ghost) ==
    LET raw == RawBody("form", fields, 0)
    IN  Request("POST", FormType, raw, Hdr(NowChars),
                Hdr(SignatureOf(Secret, NowChars, raw)), ghost)

C1 == <<"C", "1">>
C2 == <<"C", "2">>
D2 == <<"D", "2">>

\* a displayed check-in message: its buttons, the conversation it lives in
\* and its timestamp (absent for an ephemeral reply)
PromptOf(sourceChannelId, responseUrl, channel, ts) ==
    [buttons |-> buildMoodMessage(sourceChannelId, responseUrl),
     channel |-> channel, ts |-> ts]

Prompts ==
    { PromptOf(NoneS, None, C2, "T1"),            \* scheduled, in a channel
      PromptOf(NoneS, None, D2, "T1"),            \* scheduled, direct message
      PromptOf(C1, "https://hooks/r1", C1, None), \* reply to /mood
      PromptOf(NoneS, None, NoneS, None) }        \* no conversation context

Envs ==
    { [SLACK_SIGNING_SECRET |-> Secret, MOOD_CHANNEL_ID |-> m] :
          m \in {None, "C9"} }

Texts == {None, "", " ", "tired"}

Profiles ==
    { [name |-> "dana", display_name |-> "Dana", real_name |-> "Dana Scully"],
      [name |-> "dana", display_name |-> "", real_name |-> "Dana Scully"],
      [name |-> "dana", display_name |-> "", real_name |-> ""] }

InteractionFields(payload) == ("payload" :> JsonStringify(payload))

PressPayload(i) ==
    ("type" :> "block_actions")
    @@ ("action_id" :> prompt.buttons[i].action_id)
    @@ ("value" :> prompt.buttons[i].value)
    @@ PropS("channel_id", prompt.channel)
    @@ Prop("message_ts", prompt.ts)
    @@ ("trigger_id" :> "trigger") @@ ("user_id" :> "U1") @@ ("team_id" :> "T0")

ViewPayload(type, text) ==
    ("type" :> type)
    @@ ("callback_id" :> view.callback_id)
    @@ ("private_metadata" :> view.private_metadata)
    @@ Prop("context_value", text)
    @@ ("user_id" :> "U1") @@ ("team_id" :> "T0")

SlashFields(command, channel) ==
    ("command" :> command) @@ ("channel_id" :> channel)
    @@ ("response_url" :> "https://hooks/r1") @@ ("user_id" :> "U1")

(******************************* actions **********************************)
\* one HTTP request reaches the function: handler runs up to its first await
Deliver(req) ==
    /\ cur.pc \in {"idle", "done"}
    /\ nreq' = nreq + 1
    /\ LET o == handler(req, Now, runs)
       IN  /\ cur' = o.cur
           /\ runs' = o.runs
    /\ UNCHANGED <<env, rows>>

\* the user presses mood button i of the displayed message
Press(i) ==
    /\ nreq < MaxReq
    /\ ~view.open
    /\ Deliver(PlatformRequest(InteractionFields(PressPayload(i)),
                               [pressed |-> i, typed |-> None, kind |-> "press"]))
    /\ UNCHANGED <<prompt, view>>

\* the user submits the open form with the text typed
Submit(text) ==
    /\ nreq < MaxReq
    /\ view.open
    /\ Deliver(PlatformRequest(InteractionFields(ViewPayload("view_submission", text)),
                               [pressed |-> view.pressed, typed |-> text,
                                kind |-> "submit"]))
    /\ view' = NoView
    /\ UNCHANGED prompt

\* the user dismisses the open form
Close ==
    /\ nreq < MaxReq
    /\ view.open
    /\ Deliver(PlatformRequest(InteractionFields(ViewPayload("view_closed", None)),
                               [pressed |-> view.pressed, typed |-> None,
                                kind |-> "close"]))
    /\ view' = NoView
    /\ UNCHANGED prompt

\* the user types a slash command; the reply to /mood becomes the prompt
Slash(command) ==
    /\ nreq < MaxReq
    /\ ~view.open
    /\ Deliver(PlatformRequest(SlashFields(command, C1), NoGhost))
    /\ prompt' = IF cur'.reply.kind = "mood_blocks"
                 THEN [buttons |-> cur'.reply.buttons, channel |-> C1, ts |-> None]
                 ELSE prompt
    /\ UNCHANGED view

\* the platform delivers an event the app is subscribed to
Event ==
    /\ nreq < MaxReq
    /\ LET raw == RawBody("json", JsonStringify("type" :> "event_callback"), 0)
       IN  Deliver(Request("POST", JsonType, raw, Hdr(NowChars),
                           Hdr(SignatureOf(Secret, NowChars, raw)), NoGhost))
    /\ UNCHANGED <<prompt, view>>

Background ==
    \/ \E ok \in BOOLEAN : ViewsOpenDone(ok)
    \/ \E ok \in BOOLEAN : SelectDone(ok)
    \/ \E r \in 1..Len(runs), ok \in BOOLEAN, p \in Profiles : UsersInfoDone(r, ok, p)
    \/ \E r \in 1..Len(runs), ok \in BOOLEAN : InsertDone(r, ok)
    \/ \E r \in 1..Len(runs), ok \in BOOLEAN : UpdateDone(r, ok)
    \/ \E r \in 1..Len(runs), ok \in BOOLEAN : ConfirmDone(r, ok)
    \/ \E r \in 1..Len(runs), ok \in BOOLEAN : DmDone(r, ok)
    \/ \E r \in 1..Len(runs), ok \in BOOLEAN : AnnounceDone(r, ok)

Init ==
    /\ env \in Envs
    /\ prompt \in Prompts
    /\ view = NoView
    /\ nreq = 0
    /\ cur = Idle
    /\ runs = <<>>
    /\ rows = <<>>

Next ==
    \/ \E i \in 1..Len(MOODS) : Press(i)
    \/ \E text \in Texts : Submit(text)
    \/ Close
    \/ \E command \in {"/mood", "/my-moods", "/other"} : Slash(command)
    \/ Event
    \/ Background

Spec == Init /\ [][Next]_vars

(************************ wire-level specification ************************)
\* the same text laid out differently: it decodes to the same content
Relaid(raw) == [raw EXCEPT !.layout = 1 - @]

\* the deployment of the wire-level specification: announcements configured
WireEnv == [SLACK_SIGNING_SECRET |-> Secret, MOOD_CHANNEL_ID |-> "C9"]

WirePrompt == PromptOf(NoneS, None, C2, "T1")
WireToken ==
    PrivateMetadata(JsonParse(WirePrompt.buttons[3].value), C2, "T1")

WireBodies ==
    { RawBody("json", JsonStringify(("type" :> "url_verification")
                                    @@ ("challenge" :> "ch4l")), 0),
      RawBody("json", JsonStringify("type" :> "event_callback"), 0),
      RawBody("json", MalformedJson, 0),
      RawBody("text", EmptyObj, 0),
      RawBody("form", SlashFields("/my-moods", C1), 0),
      RawBody("form", InteractionFields(
          ("type" :> "block_actions")
          @@ ("action_id" :> WirePrompt.buttons[3].action_id)
          @@ ("value" :> WirePrompt.buttons[3].value)
          @@ ("channel_id" :> C2) @@ ("message_ts" :> "T1")
          @@ ("trigger_id" :> "trigger") @@ ("user_id" :> "U1")), 0),
      RawBody("form", InteractionFields(
          ("type" :> "view_submission")
          @@ ("callback_id" :> "mood_context_modal")
          @@ ("private_metadata" :> WireToken)
          @@ ("context_value" :> "tired")
          @@ ("user_id" :> "U1") @@ ("team_id" :> "T0")), 1) }

WireTimestamps ==
    { NoHdr(<<>>),
      Hdr(<<"6", "9", "9">>), Hdr(<<"7", "0", "0">>), Hdr(NowChars),
      Hdr(<<"1", "3", "0", "0">>), Hdr(<<"1", "3", "0", "1">>),
      Hdr(<<"x">>) }

\* what a sender can put in the signature header of a request
WireSignatures(timestamp, raw) ==
    { NoHdr(SignatureOf("", <<>>, raw)),
      Hdr(SignatureOf(Secret, timestamp.val, raw)),
      Hdr(SignatureOf(Secret, timestamp.val, Relaid(raw))),
      Hdr(SignatureOf("guessed-secret", timestamp.val, raw)),
      Hdr([SignatureOf(Secret, timestamp.val, raw) EXCEPT !.len = "short"]),
      Hdr([SignatureOf(Secret, timestamp.val, raw) EXCEPT !.len = "empty"]) }

WireRequests ==
    UNION { { Request(m, ct, x[1], x[2], sig, NoGhost) :
                 sig \in WireSignatures(x[2], x[1]) } :
            m \in {"POST"}, ct \in {JsonType, FormType, TextType},
            x \in WireBodies \X WireTimestamps }
    \cup { Request("GET", FormType, raw, Hdr(NowChars),
                   Hdr(SignatureOf(Secret, NowChars, raw)), NoGhost) :
              raw \in WireBodies }

\* any sender delivers any request
WireDeliver(req) ==
    /\ nreq < MaxWireReq
    /\ Deliver(req)
    /\ UNCHANGED <<prompt, view>>

InitWire ==
    /\ env = WireEnv
    /\ prompt = WirePrompt
    /\ view = NoView
    /\ nreq = 0
    /\ cur = Idle
    /\ runs = <<>>
    /\ rows = <<>>

NextWire ==
    \/ \E req \in WireRequests : WireDeliver(req)
    \/ Background

SpecWire == InitWire /\ [][NextWire]_vars

(***************************************************************************)
(* The Bolt variant of the endpoint (src/api/slack/events.ts): the         *)
(* ExpressReceiver authenticates and routes; the view listeners below run  *)
(* the persist-and-notify steps inline, one listener per way of resolving  *)
(* the form.                                                               *)
(***************************************************************************)
\* view events delivered in one behaviour of the Bolt specification
MaxBoltReq == 2

\* the listener starts: await ack(), the token is decoded, users.info issued
BoltRun(path, metadata, contextValue) ==
    [path |-> path, userId |-> "U1", teamId |-> "T0",
     metadata |-> metadata, contextValue |-> contextValue,
     pc |-> "await_users_info", userInfo |-> [name |-> None,
     display_name |-> None, real_name |-> None],
     displayName |-> None, messageUpdated |-> FALSE,
     log |-> <<Ev("ack", "ok"), Ev("users.info", "call")>>]

\* display_name || real_name (insert) and ... || "Someone" (messages)
BoltRowName(profile) ==
    IF Truthy(profile.display_name) THEN profile.display_name
    ELSE profile.real_name

\* lines 166 and 275: the name every message text of the listener interpolates
BoltDisplayName(profile) ==
    IF Truthy(profile.display_name) THEN profile.display_name
    ELSE IF Truthy(profile.real_name) THEN profile.real_name
    ELSE "Someone"

BoltRow(run, r) ==
    [slack_user_id |-> run.userId,
     slack_username |-> run.userInfo.name,
     slack_display_name |-> BoltRowName(run.userInfo),
     mood_score |-> GetN(run.metadata, "score"),
     mood_emoji |-> Get(run.metadata, "emoji"),
     additional_context |-> run.contextValue,
     slack_team_id |-> run.teamId,
     run |-> r]

\* an exception leaves the listener: Bolt reports it, the listener is over
BoltThrown(run) == RDone(RLog(run, "listener", "rejected"))

\* lines 236-247 and 337-348
BoltAnnounce(run) ==
    IF Truthy(env.MOOD_CHANNEL_ID)
    THEN RCall(run, "announce", "await_announce")
    ELSE RDone(run)

\* lines 230-234: only the view_submission listener sends the direct message
BoltAfterConfirmation(run) ==
    IF run.path = "view_submission"
    THEN RCall(run, "dm", "await_dm")
    ELSE BoltAnnounce(run)

\* lines 192-228 and 300-335
BoltConfirmation(run) ==
    IF ~run.messageUpdated
    THEN IF Truthy(Get(run.metadata, "response_url"))
         THEN RCall(run, "confirm.response_url", "await_confirm")
         ELSE IF TruthyS(GetS(run.metadata, "channel_id"))
         THEN IF StartsWith(GetS(run.metadata, "channel_id"), <<"D">>)
              THEN RCall(run, "confirm.postMessage", "await_confirm")
              ELSE RCall(run, "confirm.postEphemeral", "await_confirm")
         ELSE BoltAfterConfirmation(run)
    ELSE BoltAfterConfirmation(run)

\* lines 169-190 and 278-298
BoltUpdateOriginal(run) ==
    IF TruthyS(GetS(run.metadata, "channel_id"))
       /\ Truthy(Get(run.metadata, "message_ts"))
    THEN RCall(run, "chat.update", "await_update")
    ELSE BoltConfirmation(run)

\* lines 161-164 and 271-273: the submit listener returns on an insert
\* error, the dismiss listener logs it and goes on
BoltAfterInsert(run, stored) ==
    LET named(x) == [x EXCEPT !.displayName = BoltDisplayName(run.userInfo)]
    IN  IF stored THEN BoltUpdateOriginal(named(RLog(run, "insert", "ok")))
        ELSE LET logged == RLog(RLog(run, "insert", "err"), "console.error", "logged")
             IN  IF run.path = "view_submission" THEN RDone(logged)
                 ELSE BoltUpdateOriginal(named(logged))


\* lines 74-91: the token of the form the action listener opens for button i
\* of a displayed message
BoltToken(p, i) ==
    LET moodData == JsonParse(p.buttons[i].value)
        src == GetS(moodData, "source_channel_id")
    IN  JsonStringify(PropN("score", GetN(moodData, "score"))
                      @@ Prop("emoji", Get(moodData, "emoji"))
                      @@ PropS("channel_id", IF TruthyS(src) THEN src ELSE p.channel)
                      @@ Prop("message_ts", p.ts)
                      @@ Prop("response_url", Get(moodData, "response_url")))

\* the moods whose buttons are pressed in the Bolt specification
BoltPressed == {3}

\* lines 137-146 and 252-256: a view event on mood_context_modal reaches its
\* listener (a form with the same token can be opened again by pressing the
\* same button again)
BoltView(path, text) ==
    /\ nreq < MaxBoltReq
    /\ view.open
    /\ nreq' = nreq + 1
    /\ runs' = Append(runs,
          BoltRun(path, JsonParse(view.private_metadata),
                  IF path = "view_submission" /\ Truthy(text) THEN text ELSE None))
    /\ UNCHANGED <<env, prompt, view, cur, rows>>

\* lines 146 and 256: a rejected users.info leaves the listener
BoltUsersInfoDone(r, ok, profile) ==
    /\ r \in 1..Len(runs)
    /\ runs[r].pc = "await_users_info"
    /\ runs' = [runs EXCEPT ![r] =
          IF ok
          THEN RCall([RLog(@, "users.info", "ok") EXCEPT !.userInfo = profile],
                     "insert", "await_insert")
          ELSE BoltThrown(RLog(@, "users.info", "err"))]
    /\ UNCHANGED <<env, prompt, view, nreq, cur, rows>>

BoltInsertDone(r, ok) ==
    /\ r \in 1..Len(runs)
    /\ runs[r].pc = "await_insert"
    /\ LET row == BoltRow(runs[r], r)
           stored == ok /\ ConstraintsHold(row)
       IN  /\ rows' = IF stored THEN Append(rows, row) ELSE rows
           /\ runs' = [runs EXCEPT ![r] = BoltAfterInsert(@, stored)]
    /\ UNCHANGED <<env, prompt, view, nreq, cur>>

BoltUpdateDone(r, ok) ==
    /\ r \in 1..Len(runs)
    /\ runs[r].pc = "await_update"
    /\ runs' = [runs EXCEPT ![r] =
          IF ok
          THEN BoltConfirmation([RLog(@, "chat.update", "ok") EXCEPT
                                    !.messageUpdated = TRUE])
          ELSE BoltConfirmation(RLog(@, "chat.update", "err"))]
    /\ UNCHANGED <<env, prompt, view, nreq, cur, rows>>

BoltConfirmDone(r, ok) ==
    /\ r \in 1..Len(runs)
    /\ runs[r].pc = "await_confirm"
    /\ runs' = [runs EXCEPT ![r] =
          BoltAfterConfirmation(RLog(@, LastCall(@), IF ok THEN "ok" ELSE "err"))]
    /\ UNCHANGED <<env, prompt, view, nreq, cur, rows>>

\* line 231 is outside any try: a rejection leaves the listener
BoltDmDone(r, ok) ==
    /\ r \in 1..Len(runs)
    /\ runs[r].pc = "await_dm"
    /\ runs' = [runs EXCEPT ![r] =
          IF ok THEN BoltAnnounce(RLog(@, "dm", "ok"))
          ELSE BoltThrown(RLog(@, "dm", "err"))]
    /\ UNCHANGED <<env, prompt, view, nreq, cur, rows>>

BoltAnnounceDone(r, ok) ==
    /\ r \in 1..Len(runs)
    /\ runs[r].pc = "await_announce"
    /\ runs' = [runs EXCEPT ![r] =
          RDone(RLog(@, "announce", IF ok THEN "ok" ELSE "err"))]
    /\ UNCHANGED <<env, prompt, view, nreq, cur, rows>>

InitBolt ==
    /\ env \in Envs
    /\ prompt \in Prompts
    /\ \E i \in BoltPressed :
          view = [open |-> TRUE, callback_id |-> "mood_context_modal",
                  private_metadata |-> BoltToken(prompt, i), pressed |-> i]
    /\ nreq = 0
    /\ cur = Idle
    /\ runs = <<>>
    /\ rows = <<>>

NextBolt ==
    \/ \E text \in Texts : BoltView("view_submission", text)
    \/ BoltView("view_closed", None)
    \/ \E r \in 1..Len(runs), ok \in BOOLEAN, p \in Profiles :
          BoltUsersInfoDone(r, ok, p)
    \/ \E r \in 1..Len(runs), ok \in BOOLEAN : BoltInsertDone(r, ok)
    \/ \E r \in 1..Len(runs), ok \in BOOLEAN : BoltUpdateDone(r, ok)
    \/ \E r \in 1..Len(runs), ok \in BOOLEAN : BoltConfirmDone(r, ok)
    \/ \E r \in 1..Len(runs), ok \in BOOLEAN : BoltDmDone(r, ok)
    \/ \E r \in 1..Len(runs), ok \in BOOLEAN : BoltAnnounceDone(r, ok)

SpecBolt == InitBolt /\ [][NextBolt]_vars

(***************************************************************************)
(* The table over several form resolutions (custom handler): a form opened *)
(* by an earlier press is resolved, the platform may deliver a resolution  *)
(* again, and the user reads the entries back with /my-moods.              *)
(***************************************************************************)
\* requests delivered in one behaviour of the table specification
MaxTableReq == 2

\* the open form: button i of a scheduled message in a channel was pressed
TableView(i) ==
    [open |-> TRUE, callback_id |-> "mood_context_modal",
     private_metadata |->
         PrivateMetadata(JsonParse(WirePrompt.buttons[i].value),
                         WirePrompt.channel, WirePrompt.ts),
     pressed |-> i]

\* a view_submission / view_closed for the open form is delivered (possibly
\* not for the first time)
Resolve(type, text) ==
    /\ nreq < MaxTableReq
    /\ view.open
    /\ Deliver(PlatformRequest(InteractionFields(ViewPayload(type, text)),
                               [pressed |-> view.pressed, typed |-> text,
                                kind |-> IF type = "view_submission"
                                         THEN "submit" ELSE "close"]))
    /\ UNCHANGED <<prompt, view>>

\* the user asks for the recent entries
MyMoods(user) ==
    /\ nreq < MaxTableReq
    /\ Deliver(PlatformRequest(
          [SlashFields("/my-moods", C1) EXCEPT !.user_id = user], NoGhost))
    /\ UNCHANGED <<prompt, view>>

InitTable ==
    /\ env = WireEnv
    /\ prompt = WirePrompt
    /\ view = TableView(4)
    /\ nreq = 0
    /\ cur = Idle
    /\ runs = <<>>
    /\ rows = <<>>

NextTable ==
    \/ \E text \in {"", "tired"} : Resolve("view_submission", text)
    \/ Resolve("view_closed", None)
    \/ \E user \in {"U1", "U2"} : MyMoods(user)
    \/ \E ok \in BOOLEAN : SelectDone(ok)
    \/ \E r \in 1..Len(runs), ok \in BOOLEAN, p \in Profiles : UsersInfoDone(r, ok, p)
    \/ \E r \in 1..Len(runs), ok \in BOOLEAN : InsertDone(r, ok)
    \/ \E r \in 1..Len(runs), ok \in BOOLEAN : UpdateDone(r, ok)
    \/ \E r \in 1..Len(runs), ok \in BOOLEAN : ConfirmDone(r, ok)
    \/ \E r \in 1..Len(runs), ok \in BOOLEAN : DmDone(r, ok)
    \/ \E r \in 1..Len(runs), ok \in BOOLEAN : AnnounceDone(r, ok)

SpecTable == InitTable /\ [][NextTable]_vars

(***************************************************************************)
(* Routing of authenticated requests: correctly signed requests whose      *)
(* bodies combine the fields the router looks at (command, payload, type)  *)
(* in every way, well-formed or not.                                       *)
(***************************************************************************)
\* requests delivered in one behaviour of the routing specification
MaxRouteReq == 2

\* the payload field of a body: absent (EmptyObj), or a JSON text
RoutePayloads ==
    { EmptyObj,
      ("payload" :> MalformedJson),
      InteractionFields("type" :> "shortcut"),
      InteractionFields(("type" :> "block_actions")
                        @@ ("action_id" :> <<"o", "t", "h", "e", "r">>)
                        @@ ("value" :> MalformedJson)),
      InteractionFields(("type" :> "block_actions")
                        @@ ("action_id" :> MOODS[1].action_id)
                        @@ ("value" :> MalformedJson)),
      InteractionFields(("type" :> "view_submission")
                        @@ ("callback_id" :> "another_modal")
                        @@ ("private_metadata" :> MalformedJson)),
      InteractionFields(("type" :> "view_closed")
                        @@ ("callback_id" :> "another_modal")
                        @@ ("private_metadata" :> WireToken)
                        @@ ("user_id" :> "U1") @@ ("team_id" :> "T0")) }

RouteCommands == { EmptyObj, SlashFields("/mood", C1), SlashFields("/other", C1) }
RouteTypes == { EmptyObj, "type" :> "event_callback", "type" :> "app_rate_limited" }

RouteBodies ==
    { RawBody("form", c @@ pl @@ t, 0) :
          c \in RouteCommands, pl \in RoutePayloads, t \in RouteTypes }
    \cup { RawBody("json", JsonStringify(t), 0) : t \in RouteTypes }
    \cup { RawBody("json", MalformedJson, 0) }

\* a correctly signed request, its content type matching its syntax
RouteRequest(raw) ==
    Request("POST", IF raw.syntax = "json" THEN JsonType ELSE FormType, raw,
            Hdr(NowChars), Hdr(SignatureOf(Secret, NowChars, raw)), NoGhost)

RouteDeliver(raw) ==
    /\ nreq < MaxRouteReq
    /\ Deliver(RouteRequest(raw))
    /\ UNCHANGED <<prompt, view>>

InitRoute ==
    /\ env = WireEnv
    /\ prompt = WirePrompt
    /\ view = NoView
    /\ nreq = 0
    /\ cur = Idle
    /\ runs = <<>>
    /\ rows = <<>>

NextRoute == \E raw \in RouteBodies : RouteDeliver(raw)

SpecRoute == InitRoute /\ [][NextRoute]_vars

(***************************************************************************)
(* Requests of any method: the bodies of the wire-level specification sent *)
(* with POST and with other methods, signed or not, under either content   *)
(* type, while the work started by earlier requests goes on.               *)
(***************************************************************************)
\* requests delivered in one behaviour of the method specification
MaxMethodReq == 1

MethodRequests ==
    UNION { { Request(m, ct, raw, Hdr(NowChars), sig, NoGhost) :
                 m \in {"POST", "GET", "PUT"}, ct \in {JsonType, FormType},
                 sig \in { Hdr(SignatureOf(Secret, NowChars, raw)),
                           NoHdr(SignatureOf("", <<>>, raw)) } } :
            raw \in WireBodies }

MethodDeliver(req) ==
    /\ nreq < MaxMethodReq
    /\ Deliver(req)
    /\ UNCHANGED <<prompt, view>>

InitMethod ==
    /\ env = WireEnv
    /\ prompt = WirePrompt
    /\ view = NoView
    /\ nreq = 0
    /\ cur = Idle
    /\ runs = <<>>
    /\ rows = <<>>

NextMethod ==
    \/ \E req \in MethodRequests : MethodDeliver(req)
    \/ Background

SpecMethod == InitMethod /\ [][NextMethod]_vars

(***************************************************************************)
(* The scheduled senders: the cron endpoint next to the Bolt app           *)
(* (src/api/slack/events.ts, second half), the channel-members endpoint    *)
(* (src/api/cron/daily-checkin.ts) and sendDailyCheckIns of the socket-mode *)
(* app.  cur holds the run in progress; env is the deployment's            *)
(* process.env, a function whose domain is the set of variables that are   *)
(* set.                                                                    *)
(***************************************************************************)
\* triggers in one behaviour of the scheduler specification
MaxCronReq == 1

RECURSIVE SplitAcc(_, _, _)
SplitAcc(s, sep, piece) ==
    IF s = <<>> THEN <<piece>>
    ELSE IF Head(s) = sep THEN <<piece>> \o SplitAcc(Tail(s), sep, <<>>)
    ELSE SplitAcc(Tail(s), sep, Append(piece, Head(s)))
\* String.prototype.split(sep) on a sequence of characters
Split(s, sep) == SplitAcc(s, sep, <<>>)

\* Array.prototype.filter(Boolean) on strings: the empty ones go
FilterBoolean(strings) == SelectSeq(strings, LAMBDA x : x # <<>>)

RECURSIVE TrimStart(_)
TrimStart(s) == IF s # <<>> /\ Head(s) = " " THEN TrimStart(Tail(s)) ELSE s
RECURSIVE TrimEnd(_)
TrimEnd(s) ==
    IF s # <<>> /\ s[Len(s)] = " " THEN TrimEnd(SubSeq(s, 1, Len(s) - 1)) ELSE s
\* String.prototype.trim()
Trim(s) == TrimEnd(TrimStart(s))

Chars_undefined == <<"u", "n", "d", "e", "f", "i", "n", "e", "d">>
Chars_Bearer == <<"B", "e", "a", "r", "e", "r", " ">>
Chars_channel == <<"c", "h", "a", "n", "n", "e", "l", ":">>

\* `Bearer ${process.env.CRON_SECRET}`: an unset variable reads undefined,
\* which a template literal renders as the text 'undefined'
BearerTemplate(e) ==
    Chars_Bearer \o (IF "CRON_SECRET" \in DOMAIN e THEN e.CRON_SECRET
                     ELSE Chars_undefined)

\* events.ts 470 / daily-checkin.ts 51: authHeader !== `Bearer ...`
Unauthorized(req, e) ==
    ~req.authorization.set \/ req.authorization.val # BearerTemplate(e)

\* the instant of a run: day of the week (0 = Sunday) and hour in UTC, and
\* whether summer time is in force in the reference timezone
Weekdays == <<"Sun", "Mon", "Tue", "Wed", "Thu", "Fri", "Sat">>
\* mutant: the day of the week in UTC (the host's clock), not in the
\* reference timezone
LondonWeekday_utc(clock) == Weekdays[clock.day + 1]

\* new Date().toLocaleString("en-GB", {timeZone: "Europe/London",
\* weekday: "short"})
LondonWeekday(clock) ==
    LET hour == clock.day * 24 + clock.hour + (IF clock.bst THEN 1 ELSE 0)
    IN  Weekdays[((hour \div 24) % 7) + 1]

\* events.ts 475-480 / daily-checkin.ts 56-61
SkipsWeekend(req, e) ==
    /\ "SKIP_WEEKENDS" \in DOMAIN e /\ e.SKIP_WEEKENDS = "true"
    /\ LondonWeekday(req.clock) \in {"Sat", "Sun"}

CronNoReq == [authorization |-> NoHdr(<<>>),
              clock |-> [day |-> 0, hour |-> 0, bst |-> FALSE],
              tz |-> 0, channelId |-> NoneS, userIds |-> <<>>]

CronIdle == [pc |-> "idle", entry |-> "none", req |-> CronNoReq, status |-> 0,
             crashed |-> FALSE, body |-> EmptyObj, results |-> <<>>, todo |-> <<>>,
             allMembers |-> <<>>, cursor |-> None, lookup |-> <<>>,
             humanMembers |-> <<>>, log |-> <<>>]

CronRun(entry, req) == [CronIdle EXCEPT !.pc = "running", !.entry = entry, !.req = req]

\* res.status(status).json(body)
CronResponded(c, status, body) ==
    [c EXCEPT !.pc = "done", !.status = status, !.body = body, !.todo = <<>>]

\* a truthy environment variable holding a string, else the empty string
EnvChars(e, k) == IF k \in DOMAIN e THEN e[k] ELSE <<>>

\* events.ts 503: process.env.MOOD_USER_IDS?.split(",").filter(Boolean) || []
CronUserIds(e) ==
    IF "MOOD_USER_IDS" \in DOMAIN e
    THEN FilterBoolean(Split(e.MOOD_USER_IDS, ","))
    ELSE <<>>

\* the sends of a run, in order: the channel the message goes to and the
\* name the result is reported under
Recipient(kind, channel, userId) ==
    [kind |-> kind, channel |-> channel, userId |-> userId]

\* events.ts 488-515: the channel if configured, then the listed users
CronRecipients(e) ==
    LET channelId == EnvChars(e, "MOOD_CHANNEL_ID")
        userIds == CronUserIds(e)
    IN  (IF channelId # <<>>
         THEN <<Recipient("channel", channelId, Chars_channel \o channelId)>> ELSE <<>>)
        \o [i \in 1..Len(userIds) |->
               Recipient("user", Trim(userIds[i]), Trim(userIds[i]))]

\* events.ts 517-527: the response once every send was attempted
CronSummary(c, e) ==
    IF EnvChars(e, "MOOD_CHANNEL_ID") = <<>> /\ Len(CronUserIds(e)) = 0
    THEN CronResponded(c, 200, ("message" :> "No channel or users configured")
                               @@ ("results" :> <<>>))
    ELSE CronResponded(c, 200, ("message" :> "Daily check-in sent")
                               @@ ("results" :> c.results))

\* events.ts 467-527 (the cron endpoint), up to its first await
cronHandler(req, e) ==
    LET c == CronRun("cron", req)
    IN  IF Unauthorized(req, e)
        THEN CronResponded(c, 401, "error" :> "Unauthorized")
        ELSE IF SkipsWeekend(req, e)
        THEN CronResponded(c, 200, "message" :> "Skipped - weekend")
        ELSE LET todo == CronRecipients(e)
             IN  IF todo = <<>> THEN CronSummary(c, e)
                 ELSE [c EXCEPT !.pc = "send", !.todo = todo]

\* part_001 308-338 (sendDailyCheckIns), up to its first await; the
\* arguments are absent (NoneS / <<>>) or given
sendDailyCheckIns(channelId, userIds) ==
    LET c == CronRun("sendDailyCheckIns",
                     [CronNoReq EXCEPT !.channelId = channelId,
                                       !.userIds = userIds])
        todo == (IF TruthyS(channelId)
                 THEN <<Recipient("channel", channelId, Chars_channel \o channelId)>>
                 ELSE <<>>)
                \o [i \in 1..Len(userIds) |->
                       Recipient("user", userIds[i], userIds[i])]
    IN  IF todo = <<>> THEN [c EXCEPT !.pc = "done"]
        ELSE [c EXCEPT !.pc = "send", !.todo = todo]

\* part_000 65: new Date().getDay(), the day of the week (0 = Sunday) on the
\* clock of the host, which is tz hours ahead of UTC
HostDay(clock, tz) ==
    ((clock.day * 24 + clock.hour + tz + 168) \div 24) % 7

\* part_000 62-107 (main of the one-shot script), up to its first await;
\* CONFIG (16-27) is read from the environment when the script is loaded
main(clock, tz, e) ==
    LET c == CronRun("script", [CronNoReq EXCEPT !.clock = clock, !.tz = tz])
        channelId == EnvChars(e, "MOOD_CHANNEL_ID")
        userIds == CronUserIds(e)
        todo == (IF channelId # <<>>
                 THEN <<Recipient("channel", channelId, channelId)>> ELSE <<>>)
                \o [i \in 1..Len(userIds) |->
                       Recipient("user", userIds[i], userIds[i])]
    IN  IF Get(e, "SKIP_WEEKENDS") = "true" /\ HostDay(clock, tz) \in {0, 6}
        THEN [c EXCEPT !.pc = "done",
                       !.log = Append(@, [what |-> "console.log",
                                          to |-> <<>>, ph |-> "skipped"])]
        ELSE IF todo = <<>> THEN [c EXCEPT !.pc = "done"]
        ELSE [c EXCEPT !.pc = "send", !.todo = todo]

\* daily-checkin.ts 128-131: `Daily check-in sent to ${sent}/${of} members`
MembersMessage(sent, of) ==
    ("message" :> "Daily check-in sent to members")
    @@ ("sent" :> sent) @@ ("of" :> of)

\* one chat.postMessage settles.  events.ts 490-514 and daily-checkin.ts
\* 116-126 catch the rejection and record it; sendDailyCheckIns catches it
\* for a user (325-335) but not for the channel (315-320); the script
\* catches both (76-99).  The results of these two are the lines they write
\* to the console, one per send that settled
postMessageDone(c, e, ok, err) ==
    LET to == Head(c.todo)
        sent == [c EXCEPT
                   !.log = Append(@, [what |-> "chat.postMessage",
                                      to |-> to.channel,
                                      ph |-> IF ok THEN "ok" ELSE "err"]),
                   !.todo = Tail(@)]
        result == IF ok THEN [userId |-> to.userId, success |-> TRUE]
                  ELSE [userId |-> to.userId, success |-> FALSE, error |-> err]
        pushed == [sent EXCEPT !.results = Append(@, result)]
    IN  IF c.entry = "sendDailyCheckIns" /\ ~ok /\ to.kind = "channel"
        THEN [sent EXCEPT !.pc = "done", !.crashed = TRUE, !.todo = <<>>]
        ELSE IF pushed.todo # <<>> THEN pushed
        ELSE IF c.entry \in {"sendDailyCheckIns", "script"}
        THEN [pushed EXCEPT !.pc = "done"]
        ELSE IF c.entry = "cron" THEN CronSummary(pushed, e)
        ELSE CronResponded(pushed, 200,
                MembersMessage(Len(SelectSeq(pushed.results,
                                             LAMBDA r : r.success)),
                               Len(pushed.humanMembers))
                @@ ("results" :> pushed.results))

\* daily-checkin.ts 114-131: the sends to the human members, or the
\* response at once if there is none
membersSend(c) ==
    IF c.humanMembers = <<>>
    THEN CronResponded(c, 200,
            MembersMessage(0, 0) @@ ("results" :> <<>>))
    ELSE [c EXCEPT !.pc = "send",
                   !.todo = [i \in 1..Len(c.humanMembers) |->
                                Recipient("user", c.humanMembers[i],
                                          c.humanMembers[i])]]

\* daily-checkin.ts 98-112: the lookups of the members, or what follows if
\* there is none
membersLookup(c) ==
    IF c.allMembers = <<>> THEN membersSend(c)
    ELSE [c EXCEPT !.pc = "lookup", !.lookup = c.allMembers]

\* daily-checkin.ts 48-86 (the channel-members endpoint), up to its first
\* await
dailyCheckinHandler(req, e) ==
    LET c == CronRun("members", req)
    IN  IF Unauthorized(req, e)
        THEN CronResponded(c, 401, "error" :> "Unauthorized")
        ELSE IF SkipsWeekend(req, e)
        THEN CronResponded(c, 200, "message" :> "Skipped - weekend")
        ELSE IF EnvChars(e, "MOOD_CHANNEL_ID") = <<>>
        THEN CronResponded(c, 200, ("message" :> "No channel configured")
                                   @@ ("results" :> <<>>))
        ELSE [c EXCEPT !.pc = "members",
                       !.log = <<[what |-> "conversations.members",
                                  cursor |-> None, ph |-> "call"]>>]

\* mutant: when a page request fails, the run goes on with the members
\* collected so far
membersPageDone_keepsPartial(c, ok, members, next) ==
    IF ~ok
    THEN membersLookup(
            [c EXCEPT !.log = Append(@, [what |-> "conversations.members",
                                         cursor |-> c.cursor, ph |-> "err"])])
    ELSE LET got == [c EXCEPT
                       !.allMembers = IF members.present THEN @ \o members.list ELSE @,
                       !.cursor = next,
                       !.log = Append(@, [what |-> "conversations.members",
                                          cursor |-> c.cursor, ph |-> "ok",
                                          page |-> IF members.present
                                                   THEN members.list ELSE <<>>,
                                          next |-> next])]
         IN  IF Truthy(next)
             THEN [got EXCEPT !.log = Append(@, [what |-> "conversations.members",
                                                 cursor |-> next, ph |-> "call"])]
             ELSE membersLookup(got)

\* daily-checkin.ts 80-97: one conversations.members call settles with the
\* page `members` (present in the response or not) and `next`, the
\* response's next_cursor (None if absent)
membersPageDone(c, ok, members, next) ==
    IF ~ok
    THEN CronResponded(
            [c EXCEPT !.log = Append(@, [what |-> "conversations.members",
                                         cursor |-> c.cursor, ph |-> "err"])],
            500, "message" :> "Failed to fetch channel members")
    ELSE LET got == [c EXCEPT
                       !.allMembers = IF members.present THEN @ \o members.list ELSE @,
                       !.cursor = next,
                       !.log = Append(@, [what |-> "conversations.members",
                                          cursor |-> c.cursor, ph |-> "ok",
                                          page |-> IF members.present
                                                   THEN members.list ELSE <<>>,
                                          next |-> next])]
         IN  IF Truthy(next)
             THEN [got EXCEPT !.log = Append(@, [what |-> "conversations.members",
                                                 cursor |-> next, ph |-> "call"])]
             ELSE membersLookup(got)

\* mutant: deleted users are not filtered out
lookupDone_keepsDeleted(c, ok, user) ==
    LET memberId == Head(c.lookup)
        human == ok /\ user.present /\ ~user.is_bot
        looked == [c EXCEPT
                     !.lookup = Tail(@),
                     !.humanMembers = IF human THEN Append(@, memberId) ELSE @,
                     !.log = Append(@, [what |-> "users.info", to |-> memberId,
                                        ph |-> IF ok THEN "ok" ELSE "err",
                                        user |-> user])]
    IN  IF looked.lookup # <<>> THEN looked ELSE membersSend(looked)

\* daily-checkin.ts 100-112: one users.info settles; `user` is the
\* response's user (present or not)
lookupDone(c, ok, user) ==
    LET memberId == Head(c.lookup)
        human == ok /\ user.present /\ ~user.is_bot /\ ~user.deleted
        looked == [c EXCEPT
                     !.lookup = Tail(@),
                     !.humanMembers = IF human THEN Append(@, memberId) ELSE @,
                     !.log = Append(@, [what |-> "users.info", to |-> memberId,
                                        ph |-> IF ok THEN "ok" ELSE "err",
                                        user |-> user])]
    IN  IF looked.lookup # <<>> THEN looked ELSE membersSend(looked)

(*************************** scheduler environment *************************)
\* pages one enumeration is answered with
MaxPages == 2

\* the people of the workspace
CronUsers == { <<"a">>, <<"b">> }

\* the pages a conversations.members call can be answered with: none, or
\* members not listed by an earlier page
MemberPages(listed) ==
    LET unlisted == { x \in CronUsers : \A i \in 1..Len(listed) : listed[i] # x }
    IN  { [present |-> FALSE, list |-> <<>>] }
        \cup { [present |-> TRUE, list |-> l] :
                  l \in { <<>> } \cup { <<u>> : u \in unlisted }
                        \cup { p \in unlisted \X unlisted : p[1] # p[2] } }

\* the user object of a users.info response: absent, or with its flags
UserObjects ==
    { [present |-> FALSE, is_bot |-> FALSE, deleted |-> FALSE],
      [present |-> TRUE, is_bot |-> FALSE, deleted |-> FALSE],
      [present |-> TRUE, is_bot |-> TRUE, deleted |-> FALSE],
      [present |-> TRUE, is_bot |-> FALSE, deleted |-> TRUE] }

PagesFetched(c) ==
    Len(SelectSeq(c.log, LAMBDA e : e.what = "conversations.members" /\ e.ph = "ok"))

CronSecret == <<"s", "3", "c">>
Chars_C9 == <<"C", "9">>

CronEnvs ==
    { secret @@ skip @@ channel @@ users :
        secret \in { EmptyObj, "CRON_SECRET" :> CronSecret },
        skip \in { EmptyObj, "SKIP_WEEKENDS" :> "true", "SKIP_WEEKENDS" :> "false" },
        channel \in { EmptyObj, "MOOD_CHANNEL_ID" :> Chars_C9 },
        users \in { EmptyObj,
                    "MOOD_USER_IDS" :> <<"a", ",", " ", "b">>,
                    "MOOD_USER_IDS" :> <<",", "a", ",", ",", "b">> } }

\* what a caller can put in the authorization header
CronHeaders ==
    { NoHdr(<<>>),
      Hdr(Chars_Bearer \o CronSecret),
      Hdr(Chars_Bearer \o <<"s", "3", "x">>),
      Hdr(Chars_Bearer \o Chars_undefined),
      Hdr(CronSecret) }

\* Friday and Sunday night in summer time, when the reference timezone is
\* already in the next day; Saturday and Monday noon in winter time
CronClocks ==
    { [day |-> 5, hour |-> 23, bst |-> TRUE], [day |-> 6, hour |-> 12, bst |-> FALSE],
      [day |-> 0, hour |-> 23, bst |-> TRUE], [day |-> 1, hour |-> 12, bst |-> FALSE] }

CronRequests ==
    { [CronNoReq EXCEPT !.authorization = h, !.clock = k] :
        h \in CronHeaders, k \in CronClocks }

SendErrors == { "channel_not_found" }

\* hosts of the script: one on UTC, one eight hours behind
HostOffsets == { 0, -8 }

CronStep(c) ==
    /\ cur' = c
    /\ UNCHANGED <<env, prompt, view, runs, rows>>

\* the scheduler calls the cron endpoint
CronTrigger(req) ==
    /\ nreq < MaxCronReq
    /\ cur.pc \in {"idle", "done"}
    /\ nreq' = nreq + 1
    /\ CronStep(cronHandler(req, env))

\* a cron job calls sendDailyCheckIns
SendDailyCheckInsCall(channelId, userIds) ==
    /\ nreq < MaxCronReq
    /\ cur.pc \in {"idle", "done"}
    /\ nreq' = nreq + 1
    /\ CronStep(sendDailyCheckIns(channelId, userIds))

\* a cron job runs the one-shot script on a host whose clock is tz hours
\* ahead of UTC
ScriptRun(clock, tz) ==
    /\ nreq < MaxCronReq
    /\ cur.pc \in {"idle", "done"}
    /\ nreq' = nreq + 1
    /\ CronStep(main(clock, tz, env))

PostMessageDone(ok, err) ==
    /\ cur.pc = "send"
    /\ nreq' = nreq
    /\ CronStep(postMessageDone(cur, env, ok, err))

\* the scheduler calls the channel-members endpoint
DailyCheckinTrigger(req) ==
    /\ nreq < MaxCronReq
    /\ cur.pc \in {"idle", "done"}
    /\ nreq' = nreq + 1
    /\ CronStep(dailyCheckinHandler(req, env))

MembersPageDone(ok, members, next) ==
    /\ cur.pc = "members"
    /\ Truthy(next) => PagesFetched(cur) + 1 < MaxPages
    /\ nreq' = nreq
    /\ CronStep(membersPageDone(cur, ok, members, next))

LookupDone(ok, user) ==
    /\ cur.pc = "lookup"
    /\ nreq' = nreq
    /\ CronStep(lookupDone(cur, ok, user))

InitCron ==
    /\ env \in CronEnvs
    /\ prompt = WirePrompt
    /\ view = NoView
    /\ nreq = 0
    /\ cur = CronIdle
    /\ runs = <<>>
    /\ rows = <<>>

NextCron ==
    \/ \E req \in CronRequests : CronTrigger(req)
    \/ \E channelId \in {NoneS, Chars_C9},
          userIds \in {<<>>, <<(<<"a">>)>>, <<(<<"a">>), <<"b">>>>} :
          SendDailyCheckInsCall(channelId, userIds)
    \/ \E clock \in CronClocks, tz \in HostOffsets : ScriptRun(clock, tz)
    \/ \E ok \in BOOLEAN, err \in SendErrors : PostMessageDone(ok, err)
    \/ \E req \in CronRequests : DailyCheckinTrigger(req)
    \/ \E ok \in BOOLEAN, members \in MemberPages(cur.allMembers),
          next \in {None, "", "cursor1"} : MembersPageDone(ok, members, next)
    \/ \E ok \in BOOLEAN, user \in UserObjects :
          /\ ~ok => user = [present |-> TRUE, is_bot |-> FALSE, deleted |-> FALSE]
          /\ LookupDone(ok, user)

SpecCron == InitCron /\ [][NextCron]_vars

(***************************************************************************)
(* /my-moods over a table that already holds the entries of earlier        *)
(* check-ins of two users.                                                 *)
(***************************************************************************)
\* rows the table holds at the start
MaxStored == 9

\* the row a check-in of `user` left as the k-th row of the table
StoredRow(user, k) ==
    LET mood == MOODS[((3 * k) % 5) + 1]
    IN  [slack_user_id |-> user,
         slack_username |-> "dana",
         slack_display_name |-> "Dana",
         mood_score |-> mood.score,
         mood_emoji |-> mood.emoji,
         additional_context |-> IF k % 2 = 0 THEN None ELSE "tired",
         slack_team_id |-> "T0",
         run |-> k]

\* the tables of MaxStored rows, each row of U1 or of U2, and the empty one
StoredTables ==
    { <<>> } \cup
    { [k \in 1..MaxStored |-> StoredRow(IF k \in mine THEN "U1" ELSE "U2", k)] :
         mine \in SUBSET (1..MaxStored) }

InitMyMoods ==
    /\ env = WireEnv
    /\ prompt = WirePrompt
    /\ view = NoView
    /\ nreq = 0
    /\ cur = Idle
    /\ runs = <<>>
    /\ rows \in StoredTables

NextMyMoods ==
    \/ \E user \in {"U1", "U2"} : MyMoods(user)
    \/ \E ok \in BOOLEAN : SelectDone(ok)

SpecMyMoods == InitMyMoods /\ [][NextMyMoods]_vars

(***************************************************************************)
(* Properties                                                              *)
(***************************************************************************)
Handled == cur.pc # "idle"
IsPost == cur.req.method = "POST"
Decoded == ParseBody(cur.req)
IsChallenge ==
    ~Decoded.threw /\ Get(Decoded.body, "type") = "url_verification"

TimestampMissing == ~cur.req.timestamp.set \/ cur.req.timestamp.val = <<>>
SignatureMissing == ~cur.req.signature.set \/ cur.req.signature.val.len = "empty"
TimestampAge == cur.time - ParseInt(cur.req.timestamp.val)
TimestampStale ==
    /\ ~TimestampMissing
    /\ ~IsNaN(cur.req.timestamp.val)
    /\ (TimestampAge > 300 \/ TimestampAge < -300)

\* 'v0=' followed by the HMAC-SHA256, under the shared secret, of
\* 'v0:<timestamp>:<raw body>'
ExpectedSignature(raw) ==
    [scheme |-> "v0=",
     hex |-> [key |-> env.SLACK_SIGNING_SECRET,
              msg |-> <<"v0", cur.req.timestamp.val, raw>>],
     len |-> "full"]
SignatureCorrect ==
    ~SignatureMissing /\ cur.req.signature.val = ExpectedSignature(cur.req.rawBody)

FailsVerification ==
    TimestampMissing \/ SignatureMissing \/ TimestampStale \/ ~SignatureCorrect

InLog(log, e) == \E i \in 1..Len(log) : log[i] = e
Accepted == InLog(cur.log, Ev("verifySlackSignature", "true"))

\* the invocation did nothing but check the signature and answer
NoSideEffect ==
    /\ cur.pc = "done"
    /\ \A i \in 1..Len(cur.log) :
          cur.log[i].what \in {"verifySlackSignature", "respond", "unhandled_error"}
    /\ \A r \in 1..Len(runs) : runs[r].req # cur.req
    /\ \A k \in 1..Len(rows) : runs[rows[k].run].req # cur.req

\* C1: a POST request that is not a url_verification challenge and fails
\* signature verification (header missing, timestamp outside the window,
\* signature mismatch) has no side effect: no form is opened, no chat-API
\* call, no data-store query or insert, no handler is dispatched.
C1_RejectedHasNoSideEffect ==
    (Handled /\ IsPost /\ ~IsChallenge /\ FailsVerification) => NoSideEffect

\* C1 witness: a form submission signed under a guessed secret was delivered
\* within the window and answered 401
C1_Witness ==
    /\ Handled /\ IsPost /\ ~IsChallenge
    /\ ~Decoded.threw /\ "payload" \in DOMAIN Decoded.body
    /\ ~TimestampMissing /\ ~TimestampStale /\ ~SignatureMissing
    /\ cur.req.signature.val.len = "full" /\ ~SignatureCorrect
    /\ cur.status = 401

\* C2 (as claimed): every failure of signature verification of a POST request
\* that is not a challenge is answered 401, never with an unhandled error
C2_FailureAnswered401 ==
    (cur.pc = "done" /\ IsPost /\ ~Decoded.threw /\ ~IsChallenge
        /\ FailsVerification)
        => (cur.status = 401 /\ ~cur.crashed)

\* C3: a request whose timestamp is more than 300 seconds from now, older or
\* newer, is rejected by verifySlackSignature even when its signature is the
\* correct HMAC for that timestamp and raw body.
C3_StaleRejected ==
    (Handled /\ IsPost /\ ~Decoded.threw /\ ~IsChallenge /\ TimestampStale)
        => /\ InLog(cur.log, Ev("verifySlackSignature", "false"))
           /\ cur.status = 401

\* C3 witness: a correctly signed request stamped 301 seconds in the future
\* was rejected
C3_Witness ==
    /\ Handled /\ IsPost /\ ~Decoded.threw /\ ~IsChallenge
    /\ TimestampAge = -301 /\ SignatureCorrect
    /\ cur.status = 401

\* C4: a request is accepted only if its signature header equals 'v0=' plus
\* the HMAC of 'v0:<timestamp>:<raw body>' over the raw body; with the
\* timestamp and signature header fixed, no request with another raw body
\* passes the check.
C4_AcceptedOnlyWithRawBodyHmac ==
    Accepted =>
        /\ SignatureCorrect
        /\ \A raw \in WireBodies \cup {Relaid(cur.req.rawBody)} :
              raw # cur.req.rawBody =>
                 verifySlackSignature([cur.req EXCEPT !.rawBody = raw], raw, cur.time)
                    # "true"

\* C4 witness: a request whose body decodes to an interaction was accepted
C4_Witness ==
    /\ Accepted /\ SignatureCorrect
    /\ ~Decoded.threw /\ "payload" \in DOMAIN Decoded.body
    /\ cur.req.rawBody.layout = 1

\* C5: a POST whose decoded body has type url_verification is answered 200
\* with the challenge echoed, without signature check and without side effect.
C5_ChallengeEchoed ==
    (Handled /\ IsPost /\ IsChallenge) =>
        /\ cur.status = 200
        /\ cur.reply.kind = "challenge"
        /\ cur.reply.challenge = Get(Decoded.body, "challenge")
        /\ \A i \in 1..Len(cur.log) : cur.log[i].what = "respond"
        /\ NoSideEffect

\* C5 witness: a challenge without timestamp and signature headers was echoed
C5_Witness ==
    /\ Handled /\ IsPost /\ IsChallenge
    /\ TimestampMissing /\ SignatureMissing
    /\ cur.status = 200 /\ cur.reply.challenge = "ch4l"

(************************ interactions and runs ***************************)
Payload == JsonParse(Decoded.body.payload)
IsInteraction == Accepted /\ "payload" \in DOMAIN Decoded.body

\* an authenticated view_submission or view_closed on mood_context_modal
IsFormResolution ==
    /\ IsInteraction
    /\ Get(Payload, "type") \in {"view_submission", "view_closed"}
    /\ Get(Payload, "callback_id") = "mood_context_modal"

\* an authenticated block_actions whose first action id starts with mood_
IsMoodPress ==
    /\ IsInteraction
    /\ Get(Payload, "type") = "block_actions"
    /\ StartsWith(GetS(Payload, "action_id"), <<"m", "o", "o", "d", "_">>)

\* in log, an answer was sent before position i
AnsweredBefore(log, i) == \E j \in 1..(i - 1) : log[j].what = "respond"

\* C6 (as claimed): for an authenticated view_submission or view_closed on
\* the known form, the empty 200 acknowledgement is sent before the first
\* step of the persist-and-notify sequence, the user-lookup call, is issued
C6_AckBeforeLookupIssued ==
    IsFormResolution =>
        \A i \in 1..Len(cur.log) :
            cur.log[i] = Ev("users.info", "call") => AnsweredBefore(cur.log, i)

\* C7 (as claimed): for an authenticated mood button press, the empty
\* acknowledgement is sent before the views.open call is performed
C7_AckBeforeViewsOpen ==
    IsMoodPress =>
        \A i \in 1..Len(cur.log) :
            cur.log[i] = Ev("views.open", "call") => AnsweredBefore(cur.log, i)

StepRank(what) ==
    CASE what = "users.info" -> 1
      [] what = "insert" -> 2
      [] what = "chat.update" -> 3
      [] what \in {"confirm.response_url", "confirm.postMessage",
                   "confirm.postEphemeral"} -> 4
      [] what = "dm" -> 5
      [] what = "announce" -> 6
      [] OTHER -> 0

IsCall(e) == e.ph = "call"
Calls(log) == {i \in 1..Len(log) : IsCall(log[i])}

\* C8: within one run of the sequence the steps are issued in the order user
\* lookup, row insert, in-place edit, fallback confirmation, direct message,
\* announcement; no step starts before the previous one has completed; each
\* step is performed at most once.
C8_StepsInOrder ==
    \A r \in 1..Len(runs) :
        LET log == runs[r].log
        IN  /\ \A i \in Calls(log) : StepRank(log[i].what) > 0
            /\ \A i, j \in Calls(log) :
                  i < j => StepRank(log[i].what) < StepRank(log[j].what)
            /\ \A i \in Calls(log) :
                  i > 1 => /\ log[i - 1].ph \in {"ok", "err"}
                           /\ IsCall(log[i - 2])
                           /\ log[i - 2].what = log[i - 1].what

\* C8 witness: a finished run that went through all six steps
C8_Witness ==
    \E r \in 1..Len(runs) :
        /\ runs[r].pc = "done"
        /\ {StepRank(runs[r].log[i].what) : i \in Calls(runs[r].log)} = 1..6

\* a step issued after position i of the log of a run
CallAfter(log, i) == \E j \in Calls(log) : j > i

\* C9 (as claimed): if the insert fails, the sequence stops: no in-place edit,
\* no fallback confirmation, no direct message, no announcement, no retry
C9_InsertFailureStops ==
    \A r \in 1..Len(runs) :
        \A i \in 1..Len(runs[r].log) :
            runs[r].log[i] = Ev("insert", "err") => ~CallAfter(runs[r].log, i)

\* the row written by a run that a form submission started
SubmittedRows == {k \in 1..Len(rows) : runs[rows[k].run].req.ghost.kind = "submit"}
Pressed(k) == runs[rows[k].run].req.ghost.pressed
Typed(k) == runs[rows[k].run].req.ghost.typed

Trimmed(text) == IF text = " " THEN "" ELSE text

\* C10 (as claimed): the row has the score and symbol of the button pressed
\* and the text entered as comment, an empty or whitespace-only text giving
\* an absent comment
C10_RowMatchesButtonTrimmed ==
    \A k \in SubmittedRows :
        /\ rows[k].mood_score = MOODS[Pressed(k)].score
        /\ rows[k].mood_emoji = MOODS[Pressed(k)].emoji
        /\ rows[k].additional_context =
              IF Trimmed(Typed(k)) \in {None, ""} THEN None ELSE Typed(k)

\* C10 (amended): the row has the score and symbol of the button pressed and
\* exactly the text entered as comment, an empty or missing text giving an
\* absent comment; a whitespace-only text is stored as entered
C10_RowMatchesButton ==
    \A k \in SubmittedRows :
        /\ rows[k].mood_score = MOODS[Pressed(k)].score
        /\ rows[k].mood_emoji = MOODS[Pressed(k)].emoji
        /\ rows[k].additional_context =
              IF Typed(k) \in {None, ""} THEN None ELSE Typed(k)

\* C10 witness: the third button was pressed, a whitespace-only text was
\* entered and submitted, and the row was written with that text as comment
C10_Witness ==
    \E k \in SubmittedRows :
        /\ Pressed(k) = 3 /\ Typed(k) = " "
        /\ rows[k].mood_score = 3 /\ rows[k].mood_emoji = ":neutral:"
        /\ rows[k].additional_context = " "

(********************** submit path and dismiss path **********************)
IsAnswer(e) == e.ph \in {"ok", "err"}
Longer(a, b) == IF Len(a) >= Len(b) THEN Len(a) ELSE Len(b)
\* the first position at which two logs differ (0 when they are equal)
FirstDifference(a, b) ==
    LET D == {i \in 1..Longer(a, b) :
                 i > Len(a) \/ i > Len(b) \/ a[i] # b[i]}
    IN  IF D = {} THEN 0 ELSE CHOOSE i \in D : \A j \in D : i <= j

\* two finished listeners, one per way of resolving a form with the same
\* token by the same user
SubmitDismissPairs ==
    {x \in (1..Len(runs)) \X (1..Len(runs)) :
        /\ runs[x[1]].path = "view_submission" /\ runs[x[2]].path = "view_closed"
        /\ runs[x[1]].pc = "done" /\ runs[x[2]].pc = "done"
        /\ runs[x[1]].metadata = runs[x[2]].metadata
        /\ runs[x[1]].userId = runs[x[2]].userId}

RowsOf(r) == {k \in 1..Len(rows) : rows[k].run = r}
RowFields == {"slack_user_id", "slack_username", "slack_display_name",
              "mood_score", "mood_emoji", "slack_team_id"}

\* C11 (as claimed): a dismissal runs the same sequence as a submission with
\* the same token and user: the two step sequences part only where the
\* downstream answers part (same steps under the same conditions, the direct
\* message and the stop after a failed insert included), and the dismissal's
\* row equals the submission's row except that its comment is absent
C11_DismissSameAsSubmit ==
    \A x \in SubmitDismissPairs :
        LET s == runs[x[1]]
            d == runs[x[2]]
            i == FirstDifference(s.log, d.log)
        IN  /\ i # 0 =>
                  /\ i <= Len(s.log) /\ i <= Len(d.log)
                  /\ IsAnswer(s.log[i]) /\ IsAnswer(d.log[i])
            /\ \A k \in RowsOf(x[1]), l \in RowsOf(x[2]) :
                  /\ rows[l].additional_context = None
                  /\ s.userInfo = d.userInfo =>
                        \A f \in RowFields : rows[k][f] = rows[l][f]

(************************ edit and fallback ********************************)
ConfirmSteps == {"confirm.response_url", "confirm.postMessage",
                 "confirm.postEphemeral"}
CountCalls(log, S) == Cardinality({i \in Calls(log) : log[i].what \in S})

\* the token names the original message: conversation id and timestamp
HasMessageId(metadata) ==
    /\ TruthyS(GetS(metadata, "channel_id"))
    /\ Truthy(Get(metadata, "message_ts"))
\* a mechanism for the fallback confirmation is available
HasFallbackRoute(metadata) ==
    \/ Truthy(Get(metadata, "response_url"))
    \/ TruthyS(GetS(metadata, "channel_id"))

RunsWithRow == {r \in 1..Len(runs) : RowsOf(r) # {}}

EditDidNotSucceed(run) ==
    /\ \E i \in 1..Len(run.log) : run.log[i].what = "insert" /\ IsAnswer(run.log[i])
    /\ \/ ~HasMessageId(run.metadata)
       \/ InLog(run.log, Ev("chat.update", "err"))

ConfirmCalls(log) == {log[i].what : i \in {j \in Calls(log) : log[j].what \in ConfirmSteps}}

C14_DmAndAnnouncementAlways ==
    \A r \in RunsWithRow :
        runs[r].pc = "done" =>
            /\ InLog(runs[r].log, Ev("dm", "call"))
            /\ Truthy(env.MOOD_CHANNEL_ID) => InLog(runs[r].log, Ev("announce", "call"))

(****************************** the table **********************************)
\* C15: in every reachable state every row has a score in {1,...,5} and the
\* symbol that MOODS maps to that score, for any sequence of authenticated
\* button presses and form resolutions
C15_RowsWithinMoods ==
    \A k \in 1..Len(rows) :
        /\ rows[k].mood_score \in {MOODS[i].score : i \in 1..Len(MOODS)}
        /\ \A i \in 1..Len(MOODS) :
              MOODS[i].score = rows[k].mood_score => rows[k].mood_emoji = MOODS[i].emoji

\* C15 witness: the fourth button was pressed, the form dismissed, and the
\* row holds score 4 with its symbol
C15_Witness ==
    \E k \in 1..Len(rows) :
        /\ runs[rows[k].run].req.ghost = [pressed |-> 4, typed |-> None, kind |-> "close"]
        /\ rows[k].mood_score = 4 /\ rows[k].mood_emoji = ":smile:"

\* every row present before a step is present, unchanged and at the same
\* place, after it
RowsKept ==
    /\ Len(rows') >= Len(rows)
    /\ \A k \in 1..Len(rows) : rows'[k] = rows[k]

\* C16: the table is append-only: no step updates or deletes a row, and no
\* step of the router (the slash commands /mood and /my-moods included)
\* changes the table at all
C16_AppendOnly ==
    [][RowsKept /\ (cur' # cur => rows' = rows)]_vars

\* C16 witness: a row was written and /my-moods has since read it back, the
\* row being still in the table
C16_Witness ==
    /\ cur.pc = "done" /\ cur.reply.kind = "my_moods"
    /\ Len(rows) >= 1
    /\ \E i \in 1..Len(cur.reply.entries) : cur.reply.entries[i] = rows[1]

(******************************* routing ***********************************)
Entered(what) == InLog(cur.log, Ev(what, "enter"))
Branches ==
    {b \in {"slash", "interaction", "event", "default"} :
        \/ b = "slash" /\ Entered("handleSlashCommand")
        \/ b = "interaction"
             /\ (Entered("handleInteraction")
                 \/ ("payload" \in DOMAIN Decoded.body
                     /\ ~IsValidJson(Decoded.body.payload) /\ cur.crashed))
        \/ b = "event" /\ InLog(cur.log, Ev("event_callback", "ignored"))
        \/ b = "default"
             /\ cur.log = <<Ev("verifySlackSignature", "true"), Ev("respond", "200")>>}

MalformedRequest ==
    \/ Decoded.threw
    \/ /\ "command" \notin DOMAIN Decoded.body
       /\ "payload" \in DOMAIN Decoded.body
       /\ \/ ~IsValidJson(Decoded.body.payload)
          \/ /\ Get(Payload, "type") = "block_actions"
             /\ StartsWith(GetS(Payload, "action_id"), Chars_mood)
             /\ "value" \in DOMAIN Payload /\ ~IsValidJson(Payload.value)

\* C19 (as claimed): a request with a malformed payload is acknowledged
\* harmlessly, with 200 (or 401 if unauthenticated) and no side effect; the
\* handler never fails with an unhandled error
C19_MalformedAcknowledged ==
    (Handled /\ IsPost /\ MalformedRequest) =>
        /\ cur.pc = "done" /\ ~cur.crashed
        /\ cur.status \in {200, 401}
        /\ runs = <<>> /\ rows = <<>> /\ ~view.open

(******************************** token ************************************)
\* what the token of a press on button i of message p is to carry
TokenScore(p, i) == MOODS[i].score
TokenEmoji(p, i) == MOODS[i].emoji
TokenConversation(p, i) ==
    IF "source_channel_id" \in DOMAIN p.buttons[i].value
    THEN p.buttons[i].value.source_channel_id
    ELSE p.channel
TokenCarries(m, p, i) ==
    /\ GetN(m, "score") = TokenScore(p, i)
    /\ Get(m, "emoji") = TokenEmoji(p, i)
    /\ GetS(m, "channel_id") = TokenConversation(p, i)
    /\ Get(m, "message_ts") = p.ts
    /\ Get(m, "response_url") = Get(p.buttons[i].value, "response_url")
    /\ DOMAIN m \subseteq {"score", "emoji", "channel_id", "message_ts", "response_url"}

\* a step in which the open form is resolved and its listener starts
Resolution ==
    /\ view.open /\ ~view'.open
    /\ Len(runs') = Len(runs) + 1

\* C18: the form opened on a press carries a token with the score and symbol
\* of the button, the conversation id (the button's explicit source channel
\* if present, else the conversation the button lives in), the timestamp of
\* the original message if any and the callback URL if any; the token decoded
\* at form resolution yields exactly these values
C18_TokenRoundTrip ==
    [][/\ view'.open =>
             TokenCarries(JsonParse(view'.private_metadata), prompt', view'.pressed)
       /\ Resolution =>
             TokenCarries(runs'[Len(runs')].metadata, prompt, view.pressed)]_vars

\* C18 witness: the reply to /mood was pressed (source channel and callback
\* URL on the button, no message timestamp), the form resolved, and the run
\* holds the decoded token
C18_Witness ==
    \E r \in 1..Len(runs) :
        /\ runs[r].req.ghost.pressed = 2
        /\ runs[r].metadata =
              ("score" :> 2) @@ ("emoji" :> ":frown:") @@ ("channel_id" :> C1)
              @@ ("response_url" :> "https://hooks/r1")

(************************* downstream failures *****************************)
\* C20 (as claimed): a failing downstream call during an authenticated
\* interaction is never propagated: the interaction is still answered with
\* the empty 200, and no downstream call is attempted a second time
C20_DownstreamFailureContained ==
    /\ (IsInteraction /\ cur.pc = "done") =>
          /\ ~cur.crashed
          /\ cur.status = 200 /\ cur.reply = Reply("empty")
    /\ \A r \in 1..Len(runs) :
          \A i, j \in Calls(runs[r].log) :
              runs[r].log[i].what = runs[r].log[j].what => i = j

(******************************* methods ***********************************)
\* C21: a request with a method other than POST is answered with 405 before
\* the body is read and before the signature is verified, with no side
\* effect: nothing is logged, opened, started or stored
C21_NonPostRejected ==
    [][(nreq' # nreq /\ cur'.req.method # "POST") =>
          /\ cur'.pc = "done" /\ cur'.status = 405 /\ ~cur'.crashed
          /\ cur'.log = <<Ev("respond", "405")>>
          /\ cur'.pend = NoPend
          /\ runs' = runs /\ rows' = rows /\ view' = view /\ prompt' = prompt]_vars

\* C21 witness: an unsigned GET with a JSON content type and a body that is
\* not valid JSON was answered with 405
C21_Witness ==
    /\ cur.pc = "done" /\ cur.status = 405
    /\ cur.req.method = "GET"
    /\ cur.req.contentType = JsonType
    /\ cur.req.rawBody = RawBody("json", MalformedJson, 0)
    /\ ~cur.req.signature.set

(****************************** scheduler **********************************)
IsEndpointRun == cur.pc # "idle" /\ cur.entry \in {"cron", "members"}

\* the authorization header is 'Bearer ' followed by the configured secret
BearsSecret ==
    /\ "CRON_SECRET" \in DOMAIN env
    /\ cur.req.authorization.set
    /\ Len(cur.req.authorization.val) = 7 + Len(env.CRON_SECRET)
    /\ SubSeq(cur.req.authorization.val, 1, 7) = <<"B", "e", "a", "r", "e", "r", " ">>
    /\ SubSeq(cur.req.authorization.val, 8, Len(cur.req.authorization.val))
          = env.CRON_SECRET

Rejected401 ==
    /\ cur.pc = "done" /\ cur.status = 401
    /\ cur.log = <<>> /\ cur.results = <<>>
    /\ rows = <<>> /\ runs = <<>>

\* C22 (as claimed): the scheduler endpoints proceed only when the
\* authorization header is 'Bearer ' followed by the configured secret; for
\* every other header, an absent one included, and also when no secret is
\* configured, they answer 401, send nothing, call nothing and write nothing
C22_OnlyWithConfiguredSecret ==
    (IsEndpointRun /\ ~BearsSecret) => Rejected401

\* the day of the week in the reference timezone: an hour later than UTC in
\* summer time, so that 23h UTC already belongs to the next day
ReferenceDay ==
    IF cur.req.clock.bst /\ cur.req.clock.hour = 23
    THEN (cur.req.clock.day + 1) % 7
    ELSE cur.req.clock.day
IsWeekend == ReferenceDay \in {0, 6}
SkipEnabled == Get(env, "SKIP_WEEKENDS") = "true"
Skipped == cur.pc = "done" /\ cur.status = 200 /\ Get(cur.body, "message") = "Skipped - weekend"

\* C23: with SKIP_WEEKENDS enabled and a Saturday or Sunday in the reference
\* timezone, an authorized trigger sends nothing, enumerates and looks up
\* nothing, and its response says the run was skipped; on any other day, or
\* with SKIP_WEEKENDS disabled, the run is not skipped
C23_WeekendSkipped ==
    (IsEndpointRun /\ BearsSecret) =>
        IF SkipEnabled /\ IsWeekend
        THEN Skipped /\ cur.log = <<>> /\ cur.results = <<>>
        ELSE ~Skipped

\* C23 witness: Friday 23h UTC in summer time is Saturday in the reference
\* timezone; the authorized trigger of the channel-members endpoint was
\* skipped
C23_Witness ==
    /\ IsEndpointRun /\ BearsSecret /\ cur.entry = "members"
    /\ cur.req.clock = [day |-> 5, hour |-> 23, bst |-> TRUE]
    /\ Skipped

Sends(log) == SelectSeq(log, LAMBDA e : e.what = "chat.postMessage")

\* the recipients a finished run was to send to, in order
Configured ==
    IF cur.entry = "sendDailyCheckIns"
    THEN (IF TruthyS(cur.req.channelId) THEN <<cur.req.channelId>> ELSE <<>>)
         \o cur.req.userIds
    ELSE LET todo == CronRecipients(env)
         IN  [i \in 1..Len(todo) |-> todo[i].channel]

\* C24 (as claimed): in every scheduled-send entry point a failed send does
\* not prevent the sends to the remaining recipients, and the reported
\* results have one entry per attempted recipient, in send order, whose
\* success flag is the send's outcome, with the error message on failure
C24_SendsIsolatedAndReported ==
    (/\ cur.pc = "done" /\ cur.entry \in {"cron", "sendDailyCheckIns"}
     /\ cur.status # 401 /\ ~Skipped) =>
        LET sends == Sends(cur.log)
        IN  /\ [i \in 1..Len(sends) |-> sends[i].to] = Configured
            /\ Len(cur.results) = Len(sends)
            /\ \A i \in 1..Len(sends) :
                  /\ cur.results[i].success = (sends[i].ph = "ok")
                  /\ ("error" \in DOMAIN cur.results[i]) = (sends[i].ph = "err")

Lookups(log) == SelectSeq(log, LAMBDA e : e.what = "users.info")
\* the members the lookups found to be people: present, no bot, not deleted
IsPerson(e) == e.user.present /\ ~e.user.is_bot /\ ~e.user.deleted
EnumerationDone == cur.entry = "members" /\ cur.pc \in {"lookup", "send", "done"}
                   /\ cur.status # 500
IsMembersRun == cur.pc # "idle" /\ cur.entry = "members"

\* C25 (as claimed): every member that is neither a bot nor deleted is sent a
\* prompt, and no one else is; each recipient gets at most one
C25_EveryPersonPrompted ==
    /\ (IsMembersRun /\ cur.pc = "done" /\ "results" \in DOMAIN cur.body
        /\ cur.allMembers # <<>>) =>
          \A i \in 1..Len(Lookups(cur.log)) :
              IsPerson(Lookups(cur.log)[i]) =>
                  \E j \in 1..Len(Sends(cur.log)) :
                      Sends(cur.log)[j].to = Lookups(cur.log)[i].to
    /\ IsMembersRun =>
          \A j \in 1..Len(Sends(cur.log)) :
              /\ \E i \in 1..Len(Lookups(cur.log)) :
                    /\ Lookups(cur.log)[i].to = Sends(cur.log)[j].to
                    /\ IsPerson(Lookups(cur.log)[i])
              /\ \A k \in 1..Len(Sends(cur.log)) :
                    Sends(cur.log)[k].to = Sends(cur.log)[j].to => k = j

\* the members whose lookup succeeded and found a person, in listing order
LookedUpPersons ==
    LET found == SelectSeq(Lookups(cur.log), LAMBDA e : e.ph = "ok" /\ IsPerson(e))
    IN  [i \in 1..Len(found) |-> found[i].to]

\* C25 (amended): once the enumeration succeeded, listing each member once,
\* the prompts go to the listed members whose lookup succeeded and found
\* neither a bot nor a deleted user, once each and to no one else; a failed
\* enumeration sends nothing
C25_LookedUpPersonsPrompted ==
    IsMembersRun =>
        LET sent == [j \in 1..Len(Sends(cur.log)) |-> Sends(cur.log)[j].to]
        IN  /\ (cur.pc = "done" /\ cur.status = 200
                /\ "results" \in DOMAIN cur.body /\ cur.allMembers # <<>>) =>
                   /\ sent = LookedUpPersons
                   /\ [i \in 1..Len(Lookups(cur.log)) |-> Lookups(cur.log)[i].to]
                         = cur.allMembers
            /\ \E n \in 0..Len(LookedUpPersons) : sent = SubSeq(LookedUpPersons, 1, n)
            /\ \A j, k \in 1..Len(sent) : sent[j] = sent[k] => j = k
            /\ cur.status = 500 => sent = <<>>

\* C25 witness: of two members, the lookup of one (a person) failed and the
\* other was found to be a person: one prompt went out, to the second
C25_Witness ==
    /\ IsMembersRun /\ cur.pc = "done" /\ cur.status = 200
    /\ Len(cur.allMembers) = 2
    /\ \E i \in 1..Len(Lookups(cur.log)) :
          Lookups(cur.log)[i].ph = "err" /\ IsPerson(Lookups(cur.log)[i])
    /\ Len(Sends(cur.log)) = 1

(******************************* /my-moods *********************************)
IsMyMoods == Handled /\ Accepted /\ Get(Decoded.body, "command") = "/my-moods"
Asker == Get(Decoded.body, "user_id")
\* the positions in the table of the rows of the asker, most recent first
RECURSIVE Newest(_, _)
Newest(k, n) ==
    IF k = 0 \/ n = 0 THEN <<>>
    ELSE IF rows[k].slack_user_id = Asker THEN <<k>> \o Newest(k - 1, n - 1)
    ELSE Newest(k - 1, n)

\* C26: /my-moods replies with at most 7 entries, all of the asker, the most
\* recently recorded first, and the mean of their scores (to one decimal);
\* with no entries or a failed query it replies with the 'no entries'
\* message; the reply is always an ephemeral 200 and the table is unchanged
C26_MyMoodsReply ==
    [][(IsMyMoods' /\ cur'.pc = "done" /\ cur # cur') =>
          LET reply == cur'.reply
              newest == Newest(Len(rows), 7)
              failed == InLog(cur'.log, Ev("select", "err"))
              total == SumScores(reply.entries)
              diff == reply.average * Len(reply.entries) - 10 * total
          IN  /\ rows' = rows
              /\ cur'.status = 200 /\ ~cur'.crashed
              /\ reply.response_type = "ephemeral"
              /\ IF failed \/ newest = <<>>
                 THEN reply.kind = "no_entries" /\ reply.entries = <<>>
                 ELSE /\ reply.kind = "my_moods"
                      /\ Len(reply.entries) <= 7
                      /\ reply.entries = [i \in 1..Len(newest) |-> rows[newest[i]]]
                      /\ 2 * diff <= Len(reply.entries)
                      /\ 2 * diff >= 0 - Len(reply.entries)]_vars

\* C26 witness: the asker has more than 7 entries, other users' entries lie
\* between them, and the reply lists 7
C26_Witness ==
    /\ IsMyMoods /\ cur.pc = "done" /\ cur.reply.kind = "my_moods"
    /\ Len(cur.reply.entries) = 7
    /\ Cardinality({k \in 1..Len(rows) : rows[k].slack_user_id = Asker}) = 8
    /\ rows[Len(rows) - 1].slack_user_id # Asker

(********************************* /mood ***********************************)
IsMood == Handled /\ Accepted /\ Get(Decoded.body, "command") = "/mood"

\* C27: /mood is answered with an ephemeral 200 holding exactly five buttons,
\* one per mood, with the action ids mood_1..mood_5, the value of each
\* carrying the mood's score and symbol and the command's channel id and
\* response_url; no form is opened, no row written, no chat-API call made
C27_MoodReply ==
    [][(nreq' # nreq /\ IsMood') =>
          LET buttons == cur'.reply.buttons
          IN  /\ cur'.pc = "done" /\ cur'.status = 200 /\ ~cur'.crashed
              /\ cur'.reply.kind = "mood_blocks"
              /\ cur'.reply.response_type = "ephemeral"
              /\ Len(buttons) = 5
              /\ \A i \in 1..5 :
                    LET value == JsonParse(buttons[i].value)
                    IN  /\ buttons[i].action_id
                              = <<"m", "o", "o", "d", "_", Digits[i + 1]>>
                        /\ DOMAIN value = {"score", "emoji", "source_channel_id",
                                           "response_url"}
                        /\ value.score = i
                        /\ value.emoji = MOODS[i].emoji
                        /\ value.source_channel_id = cur'.req.rawBody.fields.channel_id
                        /\ value.response_url = cur'.req.rawBody.fields.response_url
              /\ \A i, j \in 1..5 : buttons[i].action_id = buttons[j].action_id => i = j
              /\ cur'.log = <<Ev("verifySlackSignature", "true"),
                              Ev("handleSlashCommand", "enter"),
                              Ev("respond", "200")>>
              /\ view' = view /\ rows' = rows /\ runs' = runs]_vars

\* C27 witness: the second request of the user was /mood; it was answered
\* with the five buttons, which the platform now shows
C27_Witness ==
    /\ IsMood /\ cur.pc = "done" /\ nreq = 2
    /\ Len(cur.reply.buttons) = 5
    /\ prompt.buttons = cur.reply.buttons

(***************************** in-place edit *******************************)
EditAttempted(run) == \E i \in 1..Len(run.log) : run.log[i] = Ev("chat.update", "call")
InsertSettled(run) ==
    \E i \in 1..Len(run.log) : run.log[i].what = "insert" /\ run.log[i].ph # "call"
TokenHasBoth(run) ==
    /\ "channel_id" \in DOMAIN run.metadata /\ run.metadata.channel_id # <<>>
    /\ "message_ts" \in DOMAIN run.metadata /\ run.metadata.message_ts # ""

\* C28: the edit of the original message is attempted only if the token
\* carries both a conversation id and the timestamp of the original message
\* (and then it is, once the insert has settled); a failed edit is swallowed
\* and the fallback confirmation is sent next
C28_EditOnlyWithBoth ==
    \A r \in 1..Len(runs) :
        LET run == runs[r]
        IN  /\ EditAttempted(run) => TokenHasBoth(run)
            /\ (InsertSettled(run) /\ TokenHasBoth(run)) => EditAttempted(run)
            /\ \A i \in 1..Len(run.log) :
                  run.log[i] = Ev("chat.update", "err") =>
                      /\ i < Len(run.log)
                      /\ run.log[i + 1].ph = "call"
                      /\ run.log[i + 1].what \in {"confirm.response_url",
                                                  "confirm.postMessage",
                                                  "confirm.postEphemeral"}

\* C28 witness: the edit failed and the ephemeral confirmation was then
\* delivered to the conversation
C28_Witness ==
    \E r \in 1..Len(runs) :
        \E i \in 1..(Len(runs[r].log) - 2) :
            /\ runs[r].log[i] = Ev("chat.update", "err")
            /\ runs[r].log[i + 1] = Ev("confirm.postEphemeral", "call")
            /\ runs[r].log[i + 2] = Ev("confirm.postEphemeral", "ok")

(************************ unrecognised interactions ************************)
\* an authenticated, well-formed interaction that is none of the cases the
\* handler knows
Unrecognised ==
    /\ Accepted /\ cur.pc = "done"
    /\ "command" \notin DOMAIN Decoded.body
    /\ "payload" \in DOMAIN Decoded.body /\ IsValidJson(Decoded.body.payload)
    /\ \/ /\ Get(Payload, "type") = "block_actions"
          /\ "action_id" \in DOMAIN Payload
          /\ \/ Len(Payload.action_id) < 5
             \/ SubSeq(Payload.action_id, 1, 5) # <<"m", "o", "o", "d", "_">>
       \/ /\ Get(Payload, "type") \in {"view_submission", "view_closed"}
          /\ "callback_id" \in DOMAIN Payload
          /\ Payload.callback_id # "mood_context_modal"
       \/ Get(Payload, "type") \notin {"block_actions", "view_submission",
                                       "view_closed"}

\* C29: an unrecognised interaction is acknowledged with an empty 200 and
\* causes no form open, no row insert and no chat-API call
C29_UnrecognisedAcknowledged ==
    Unrecognised =>
        /\ cur.status = 200 /\ ~cur.crashed /\ cur.reply = Reply("empty")
        /\ cur.log = <<Ev("verifySlackSignature", "true"),
                       Ev("handleInteraction", "enter"), Ev("respond", "200")>>
        /\ cur.pend = NoPend /\ ~view.open
        /\ runs = <<>> /\ rows = <<>>

\* C29 witness: the dismissal of a form other than the check-in form,
\* carrying a token the check-in form could carry, was acknowledged
C29_Witness ==
    /\ Unrecognised /\ cur.status = 200
    /\ Get(Payload, "type") = "view_closed"
    /\ Get(Payload, "private_metadata") = WireToken

(***************************** origin of rows ******************************)
\* the request is a correctly signed view_submission or view_closed on the
\* check-in form
IsSignedResolution(req) ==
    LET body == ParseBody(req).body
    IN  /\ req.method = "POST"
        /\ req.signature.set /\ req.timestamp.set
        /\ req.signature.val
              = [scheme |-> "v0=",
                 hex |-> [key |-> env.SLACK_SIGNING_SECRET,
                          msg |-> <<"v0", req.timestamp.val, req.rawBody>>],
                 len |-> "full"]
        /\ "command" \notin DOMAIN body /\ "payload" \in DOMAIN body
        /\ Get(JsonParse(body.payload), "type") \in {"view_submission", "view_closed"}
        /\ Get(JsonParse(body.payload), "callback_id") = "mood_context_modal"

InsertAttempts(run) ==
    Cardinality({i \in 1..Len(run.log) : run.log[i] = Ev("insert", "call")})

\* C30: a row is inserted only in handling an authenticated view_submission
\* or view_closed on the check-in form (never for a button press, a slash
\* command or an event callback), and each accepted delivery of a form
\* resolution causes at most one insert attempt
C30_RowsOnlyFromResolutions ==
    [][/\ Len(runs') > Len(runs) =>
             /\ Len(runs') = Len(runs) + 1 /\ nreq' = nreq + 1
             /\ runs'[Len(runs')].req = cur'.req
             /\ IsSignedResolution(cur'.req)
       /\ rows' # rows =>
             /\ Len(rows') = Len(rows) + 1
             /\ SubSeq(rows', 1, Len(rows)) = rows
             /\ rows'[Len(rows')].run \in 1..Len(runs)
             /\ IsSignedResolution(runs[rows'[Len(rows')].run].req)
             /\ cur' = cur
       /\ \A r \in 1..Len(runs') : InsertAttempts(runs'[r]) <= 1]_vars

\* C30 witness: after a button press and the submission of the form there is
\* one row, written by the run the submission started
C30_Witness ==
    /\ nreq = 2 /\ Len(runs) = 1 /\ Len(rows) = 1
    /\ rows[1].run = 1
    /\ runs[1].req.ghost.kind = "submit"
    /\ InsertAttempts(runs[1]) = 1

(*************************** repeated deliveries ***************************)
\* the insert of the run was stored
Inserted(run) == InLog(run.log, Ev("insert", "ok"))

\* runs r1 and r2 were started by deliveries of one and the same request
SameDelivery(r1, r2) ==
    /\ r1 < r2
    /\ runs[r1].req = runs[r2].req
    /\ IsSignedResolution(runs[r1].req)

\* C31: no deduplication state is held: when the same authenticated
\* view_submission or view_closed is delivered again within the replay
\* window, the delivery is accepted like the first and starts a
\* persist-and-notify run of its own, and the inserts of the two runs leave
\* two rows with the same submitter, score, symbol and comment
C31_RedeliveryWritesAgain ==
    /\ (cur.pc = "done" /\ IsSignedResolution(cur.req)) =>
          /\ cur.status = 200
          /\ Len(runs) >= 1 /\ runs[Len(runs)].req = cur.req
    /\ \A r1, r2 \in 1..Len(runs) :
          (SameDelivery(r1, r2) /\ Inserted(runs[r1]) /\ Inserted(runs[r2])) =>
             \E k1, k2 \in 1..Len(rows) :
                /\ k1 # k2
                /\ rows[k1].run = r1 /\ rows[k2].run = r2
                /\ rows[k1].slack_user_id = rows[k2].slack_user_id
                /\ rows[k1].mood_score = rows[k2].mood_score
                /\ rows[k1].mood_emoji = rows[k2].mood_emoji
                /\ rows[k1].additional_context = rows[k2].additional_context

\* C31 witness: a submission with a comment was delivered twice and the
\* table holds the two rows
C31_Witness ==
    /\ Len(runs) = 2 /\ SameDelivery(1, 2)
    /\ runs[1].req.ghost.kind = "submit" /\ runs[1].req.ghost.typed = "tired"
    /\ Inserted(runs[1]) /\ Inserted(runs[2])
    /\ Len(rows) = 2

(***************************** the resolved name ***************************)
\* the first non-empty of the profile's display name, its real name and the
\* placeholder
FirstNonEmptyName(profile) ==
    IF profile.display_name \notin {None, ""} THEN profile.display_name
    ELSE IF profile.real_name \notin {None, ""} THEN profile.real_name
    ELSE "Someone"

\* C32 (as claimed): the name stored in a row is the first non-empty of the
\* submitter's profile display name, profile real name and the placeholder
\* 'Someone', and it is the name the messages of the same run carry
C32_OneResolvedName ==
    \A k \in 1..Len(rows) :
        LET run == runs[rows[k].run]
        IN  /\ rows[k].slack_display_name = FirstNonEmptyName(run.userInfo)
            /\ run.displayName = rows[k].slack_display_name

(***************************** failed lookup *******************************)
\* the position in the log of the run at which its user lookup failed
LookupFailedAt(run) ==
    {i \in 1..Len(run.log) : run.log[i] = Ev("users.info", "err")}

\* C33: if the user-lookup call of a persist-and-notify run fails, the run
\* is over: no row is inserted for it, no message is edited, no
\* confirmation, direct message or announcement is sent, and the only thing
\* that follows the failure is the logging of the error
C33_LookupFailureAborts ==
    \A r \in 1..Len(runs) :
        \A i \in LookupFailedAt(runs[r]) :
            /\ runs[r].pc = "done"
            /\ ~runs[r].messageUpdated
            /\ Calls(runs[r].log) = {1}
            /\ Len(runs[r].log) = i + 1
            /\ runs[r].log[i + 1] = Ev("console.error", "caught")
            /\ \A k \in 1..Len(rows) : rows[k].run # r

\* C33 witness: a form was submitted, the lookup of its run failed and the
\* run is over, while an announcement conversation is configured
C33_Witness ==
    \E r \in 1..Len(runs) :
        /\ LookupFailedAt(runs[r]) # {}
        /\ runs[r].req.ghost.kind = "submit"
        /\ runs[r].pc = "done"
        /\ Truthy(env.MOOD_CHANNEL_ID)
        /\ cur.status = 200

(******************* direct message, then announcement *********************)
\* the direct-message confirmation of the run has been answered
DmSettled(run) ==
    InLog(run.log, Ev("dm", "ok")) \/ InLog(run.log, Ev("dm", "err"))

\* C34 (as claimed): with an announcement conversation configured, every run
\* that reached the direct-message step attempts the announcement post once
\* the direct message is settled, whether it succeeded or failed
C34_AnnouncementWhateverDm ==
    \A r \in 1..Len(runs) :
        (DmSettled(runs[r]) /\ Truthy(env.MOOD_CHANNEL_ID)) =>
            InLog(runs[r].log, Ev("announce", "call"))

(******************* the weekend in every entry point **********************)
\* a run of one of the three scheduled-send entry points that was let in
IsScheduledRun ==
    /\ cur.pc # "idle"
    /\ cur.entry \in {"cron", "members", "script"}
    /\ cur.status # 401

\* the run ended at its weekend test
RunSkipped ==
    \/ Skipped
    \/ /\ cur.entry = "script" /\ cur.pc = "done"
       /\ \E i \in 1..Len(cur.log) : cur.log[i].ph = "skipped"

\* C35 (as claimed): the two cron handlers and the one-shot script decide
\* the weekend skip from the day of the week in the reference timezone:
\* with SKIP_WEEKENDS enabled and a Saturday or Sunday there, no entry point
\* sends a message, and on a weekday there none skips
C35_ReferenceTimezoneEverywhere ==
    IsScheduledRun =>
        /\ (SkipEnabled /\ IsWeekend) =>
              /\ Sends(cur.log) = <<>>
              /\ cur.pc # "send" /\ cur.todo = <<>>
        /\ ~IsWeekend => ~RunSkipped

(************************ membership enumeration ***************************)
PageEntries(log, ph) ==
    SelectSeq(log, LAMBDA e : e.what = "conversations.members" /\ e.ph = ph)

RECURSIVE ConcatPages(_)
\* the members of the pages answered, in the order the pages came
ConcatPages(pages) ==
    IF pages = <<>> THEN <<>>
    ELSE pages[1].page \o ConcatPages(Tail(pages))

\* the members whose user lookup failed
LookupFailed == { e.to : e \in { Lookups(cur.log)[i] :
                     i \in { j \in 1..Len(Lookups(cur.log)) :
                               Lookups(cur.log)[j].ph = "err" } } }

\* C36: in the channel-members variant the enumeration requests the next
\* page, with the cursor the last page returned, as long as a page returns a
\* non-empty cursor, and no further page once one returns an empty or absent
\* cursor; the collected member list is the concatenation of the pages in
\* order; if a page request fails the handler answers 500 and sends no
\* prompt; a member whose user lookup fails is skipped: it gets no prompt
\* and has no entry in the results
C36_EnumerationAndSkips ==
    IsMembersRun =>
        LET answered == PageEntries(cur.log, "ok")
            requested == PageEntries(cur.log, "call")
            failed == PageEntries(cur.log, "err")
        IN  /\ cur.allMembers = ConcatPages(answered)
            /\ \A i \in 1..Len(answered) :
                  /\ i < Len(answered) => Truthy(answered[i].next)
                  /\ Truthy(answered[i].next) =>
                        /\ Len(requested) > i
                        /\ requested[i + 1].cursor = answered[i].next
                  /\ answered[i].cursor = requested[i].cursor
            /\ Len(requested) = Len(answered) + Len(failed)
                                + (IF cur.pc = "members" THEN 1 ELSE 0)
            /\ (cur.pc # "members" /\ failed = <<>> /\ answered # <<>>) =>
                  ~Truthy(answered[Len(answered)].next)
            /\ failed # <<>> =>
                  /\ cur.pc = "done" /\ cur.status = 500
                  /\ Sends(cur.log) = <<>> /\ Lookups(cur.log) = <<>>
                  /\ cur.results = <<>>
            /\ \A m \in LookupFailed :
                  /\ \A j \in 1..Len(Sends(cur.log)) : Sends(cur.log)[j].to # m
                  /\ \A j \in 1..Len(cur.results) : cur.results[j].userId # m
                  /\ \A j \in 1..Len(cur.humanMembers) : cur.humanMembers[j] # m

\* C36 witness: two pages were answered, the first with a cursor; of the two
\* members collected the lookup of the first failed, and the run ended with
\* one prompt, to the second
C36_Witness ==
    /\ IsMembersRun /\ BearsSecret /\ cur.pc = "done" /\ cur.status = 200
    /\ Len(PageEntries(cur.log, "ok")) = 2
    /\ cur.allMembers = << <<"a">>, <<"b">> >>
    /\ LookupFailed = { <<"a">> }
    /\ Len(Sends(cur.log)) = 1 /\ Sends(cur.log)[1].to = <<"b">>
    /\ Len(cur.results) = 1

====
